---- MODULE Spec2Model ----
(***************************************************************************)
(* TrainDesk backend: the HTTP service of src/server.js in its latest      *)
(* revision (lines 732-2187), with the register-admin route of the first   *)
(* revision (lines 272-283), the only code of the repository that gives a  *)
(* User the role admin.                                                    *)
(*                                                                         *)
(* The user and employee routes of the revision of src/unnamed/part_001    *)
(* are modelled beside them (names ending in 001) and run in a slice of    *)
(* their own.                                                              *)
(*                                                                         *)
(* State: the Mongo collections (User, Employee, SOP, TrainingVideo,       *)
(* EmployeeSOPProgress, SystemLog, SystemSettings), the identity           *)
(* provider's accounts, the                                                *)
(* temp directory of the certificate renderer, the requests in flight and  *)
(* the last response sent.                                                 *)
(*                                                                         *)
(* Granularity: a handler whose awaits race in a way the properties look   *)
(* at (first-time authentication, SOP and training completion, the first   *)
(* access to the settings) is split at those                               *)
(* awaits and runs in a slot of `calls`; every other handler is one step.  *)
(* Spec runs requests one after another; SpecConc interleaves them.        *)
(*                                                                         *)
(* Collections that support delete are sequences indexed by _id whose      *)
(* deleted documents become tombstones (live = FALSE): an ObjectId is      *)
(* never issued twice.  findOne without sort returns the match with the    *)
(* least _id (insertion order).                                            *)
(***************************************************************************)
EXTENDS Naturals, Sequences, FiniteSets

(* ------------------------------ bounds --------------------------------- *)
\* documents ever inserted into the Employee collection
MaxEmployees == 2
\* documents ever inserted into the SOP collection
MaxSops == 2
\* SOP documents in the slices that also run employees or completions
MaxSopsWide == 1
\* documents ever inserted into the TrainingVideo collection
MaxTrainings == 1
\* User documents per firebaseUid (more than one only by a race)
MaxUserDocs == 2
\* SystemLog documents per ownerId
MaxLogs == 6
\* times one SOP's `updated` is re-stamped
MaxStamp == 1
\* generateCertificate invocations per (employee, SOP)
MaxGen == 2
\* files left behind in temp/
MaxTemp == 1
\* requests in flight at once under SpecConc
MaxConc == 2
\* Employee ids a request body's assignedTo may name
MaxAssigned == 1

(* --------------------------- identity provider ------------------------- *)
\* The accounts the provider holds or will create: createUser gives a new
\* email a uid of its own, getUserByEmail returns it ever after.
FbDirectory ==
    { [uid |-> "a1", email |-> "a1@x"],
      [uid |-> "a2", email |-> "a2@x"],
      [uid |-> "e1", email |-> "e1@x"] }

Uids == { a.uid : a \in FbDirectory }
Emails == { a.email : a \in FbDirectory }
UidOfEmail(email) == (CHOOSE a \in FbDirectory : a.email = email).uid
EmailOfUid(uid) == (CHOOSE a \in FbDirectory : a.uid = uid).email
\* accounts that exist before the service creates any (self sign-up)
SignedUp == { "a1@x", "a2@x" }
\* the subjects that ask to become admin
AdminUids == { UidOfEmail(e) : e \in SignedUp }

(* ------------------------------ inputs --------------------------------- *)
\* Request bodies and ids are drawn from these; "" stands for a field that
\* is missing or empty (both falsy to the handlers).
EmpIds == 1..MaxEmployees
SopIds == 1..MaxSops
TrainingIds == 1..MaxTrainings
TitleVals == { "", "T" }
DeptVals == { "", "ops" }
ContentVals == { "", "c1", "c2" }
\* the emails admins hire under: another admin's, and one without an account
EmployeeEmails == { "a2@x", "e1@x" }
EmployeeUids == { UidOfEmail(e) : e \in EmployeeEmails }
\* POST /api/employees: one complete body per email, and one per missing field
EmployeeBodies ==
    { [ name |-> "Ann", email |-> e, dept |-> "ops" ] : e \in EmployeeEmails }
    \cup { [ name |-> "", email |-> "e1@x", dept |-> "ops" ],
           [ name |-> "Ann", email |-> "", dept |-> "ops" ],
           [ name |-> "Ann", email |-> "e1@x", dept |-> "" ] }
\* the assignedTo of an SOP body: absent, or an array of Employee ids
Absent == [ present |-> FALSE, val |-> {} ]
AssignOpts ==
    { Absent } \cup { [ present |-> TRUE, val |-> S ] : S \in SUBSET (1..MaxAssigned) }
\* POST /api/sops: the complete bodies, and one per missing field
SopBodies ==
    { [ title |-> "T", dept |-> "ops", content |-> "c1", assignedTo |-> a ] :
        a \in AssignOpts }
    \cup { [ title |-> "", dept |-> "ops", content |-> "c1", assignedTo |-> Absent ],
           [ title |-> "T", dept |-> "", content |-> "c1", assignedTo |-> Absent ],
           [ title |-> "T", dept |-> "ops", content |-> "", assignedTo |-> Absent ] }
\* POST /api/training: the complete bodies, and one per missing field
TrainingBodies ==
    { [ title |-> "T", videoUrl |-> "v", assignedEmployees |-> S ] :
        S \in SUBSET EmployeeUids }
    \cup { [ title |-> "", videoUrl |-> "v", assignedEmployees |-> {} ],
           [ title |-> "T", videoUrl |-> "", assignedEmployees |-> {} ] }
\* PUT /api/sops/:id: any subset of the fields
SopPatches ==
    [ title : TitleVals, dept : DeptVals, content : ContentVals,
      assignedTo : AssignOpts ]

\* Bodies that carry an ownerId of the client's choosing besides their
\* fields: a complete POST /api/sops, POST /api/training and POST
\* /api/employees, and a PUT /api/sops/:id with content.
OwnerVals == { "a2" }
SopBodiesOwned ==
    { [ title |-> "T", dept |-> "ops", content |-> "c1", assignedTo |-> Absent,
        ownerId |-> o ] : o \in OwnerVals }
SopPatchesOwned ==
    { [ title |-> "", dept |-> "", content |-> c, assignedTo |-> Absent,
        ownerId |-> o ] : c \in ContentVals, o \in OwnerVals }
TrainingBodiesOwned ==
    { [ title |-> "T", videoUrl |-> "v", assignedEmployees |-> {}, ownerId |-> o ] :
        o \in OwnerVals }
EmployeeBodiesOwned ==
    { [ name |-> "Ann", email |-> "e1@x", dept |-> "ops", ownerId |-> o ] :
        o \in OwnerVals }

\* PUT /api/settings: a body names any of the top-level sections; "" is a
\* section the body leaves out.
NoSettingsBody == [ websocket |-> "", notifications |-> "" ]
SettingsBodies == [ websocket : { "", "w1" }, notifications : { "", "n1" } ]

VARIABLES
    users,      \* User collection: firebaseUid -> its documents' roles, oldest first
    employees,  \* Employee collection, by _id
    sops,       \* SOP collection, by _id
    trainings,  \* TrainingVideo collection, by _id
    progress,   \* EmployeeSOPProgress collection, by _id
    logs,       \* SystemLog collection: ownerId -> number of documents
    fbUsers,    \* emails with an identity-provider account
    temp,       \* certificate files left in temp/
    genCalls,   \* generateCertificate invocations: <<employeeUid, sopId>> -> count
    settings,   \* SystemSettings collection: ownerId -> its documents, oldest first
    calls,      \* requests in flight, by slot
    resp        \* the last response sent

vars == << users, employees, sops, trainings, progress, logs, fbUsers, temp,
           genCalls, settings, calls, resp >>

Slots == 1..MaxConc
NoCaller == [ isEmployee |-> FALSE, firebaseUid |-> "", role |-> "", tenant |-> "",
              empId |-> 0 ]
\* push, status: the changes a training completion holds in memory between
\* its read of the training and its save
\* sent: the body of a PUT /api/settings waiting for its settings document
Idle == [ pc |-> "idle", op |-> "none", uid |-> "", id |-> 0, prog |-> 0,
          caller |-> NoCaller, push |-> FALSE, status |-> "",
          sent |-> NoSettingsBody ]
NoBody == {}
\* certificateUrl: null, or the url of the n-th upload for the pair
NoCert == 0

Respond(op, uid, status, caller, id, body) ==
    [ op |-> op, uid |-> uid, status |-> status,
      isEmployee |-> caller.isEmployee, role |-> caller.role,
      tenant |-> caller.tenant, id |-> id, body |-> body ]

\* A response together with the request body it answers.
WithSent(r, sent) ==
    [ op |-> r.op, uid |-> r.uid, status |-> r.status, isEmployee |-> r.isEmployee,
      role |-> r.role, tenant |-> r.tenant, id |-> r.id, body |-> r.body,
      sent |-> sent ]

(* ------------------------------ schemas -------------------------------- *)
DefaultUserRoleAdmin == "admin"
DefaultUserRole == "user"

NewEmployee(ownerId, firebaseUid, name, email, dept) ==
    [ live |-> TRUE, ownerId |-> ownerId, firebaseUid |-> firebaseUid,
      name |-> name, email |-> email, dept |-> dept, role |-> "staff",
      status |-> "active", completedTrainings |-> {}, pendingSOPs |-> 0,
      completedBy |-> 0 ]

GoneEmployee ==
    [ live |-> FALSE, ownerId |-> "", firebaseUid |-> "", name |-> "",
      email |-> "", dept |-> "", role |-> "", status |-> "",
      completedTrainings |-> {}, pendingSOPs |-> 0, completedBy |-> 0 ]

(* --------------------------- collection reads -------------------------- *)
LiveIds(coll) == { i \in DOMAIN coll : coll[i].live }
Least(S) == CHOOSE i \in S : \A j \in S : i <= j

\* Employee.findOne({ firebaseUid }): 0 when there is none
FindEmployeeByUid(uid) ==
    LET m == { i \in LiveIds(employees) : employees[i].firebaseUid = uid }
    IN  IF m = {} THEN 0 ELSE Least(m)

(* ------------------------------ authenticate --------------------------- *)
\* The resolution with the two lookups in the other order: the User first,
\* the Employee only when there is no User.
ResolveCallerUserFirst(uid, us) ==
    LET e == FindEmployeeByUid(uid)
    IN  IF us[uid] = << >> /\ e # 0
        THEN [ isEmployee |-> TRUE, firebaseUid |-> uid,
               role |-> employees[e].role, tenant |-> employees[e].ownerId,
               empId |-> e ]
        ELSE [ isEmployee |-> FALSE, firebaseUid |-> uid,
               role |-> IF us[uid] = << >> THEN DefaultUserRole ELSE us[uid][1],
               tenant |-> uid, empId |-> 0 ]

\* The caller authenticate leaves in req.user, given the collections.
ResolveCaller(uid, us) ==
    LET e == FindEmployeeByUid(uid)
    IN  IF e # 0
        THEN [ isEmployee |-> TRUE, firebaseUid |-> uid,
               role |-> employees[e].role, tenant |-> employees[e].ownerId,
               empId |-> e ]
        ELSE [ isEmployee |-> FALSE, firebaseUid |-> uid,
               role |-> IF us[uid] = << >> THEN DefaultUserRole ELSE us[uid][1],
               tenant |-> uid, empId |-> 0 ]

\* The User collection after authenticate ran for uid without interruption.
AuthUsers(uid) ==
    IF FindEmployeeByUid(uid) = 0 /\ users[uid] = << >>
    THEN [ users EXCEPT ![uid] = << DefaultUserRole >> ]
    ELSE users

Authenticate(uid) == ResolveCaller(uid, users)

RequireAdmin(caller) == caller.role = "admin"

HasToken(uid) == EmailOfUid(uid) \in fbUsers
Quiet == \A s \in Slots : calls[s].pc = "idle"
\* a new request takes the lowest idle slot
FreeSlot(s) ==
    /\ calls[s].pc = "idle"
    /\ \A t \in Slots : t < s => calls[t].pc # "idle"

(* -------------------------------- Init --------------------------------- *)
Init ==
    /\ users = [ u \in Uids |-> << >> ]
    /\ employees = << >>
    /\ sops = << >>
    /\ trainings = << >>
    /\ progress = << >>
    /\ logs = [ u \in Uids |-> 0 ]
    /\ fbUsers = SignedUp
    /\ temp = 0
    /\ genCalls = [ p \in Uids \X SopIds |-> 0 ]
    /\ settings = [ u \in Uids |-> << >> ]
    /\ calls = [ s \in Slots |-> Idle ]
    /\ resp = Respond("none", "", 0, NoCaller, 0, NoBody)

(* --------------------- POST /api/users/register-admin ------------------ *)
\* First revision: its authenticate inserts the User when absent, the
\* handler then sets the role of the first User with that uid.
RegisterAdmin(uid) ==
    /\ HasToken(uid)
    /\ users' = [ users EXCEPT ![uid] =
                    IF @ = << >> THEN << "admin" >> ELSE [ @ EXCEPT ![1] = "admin" ] ]
    /\ resp' = Respond("registerAdmin", uid, 200,
                       [ NoCaller EXCEPT !.firebaseUid = uid, !.role = "admin",
                                         !.tenant = uid ],
                       0, NoBody)
    /\ UNCHANGED << employees, sops, trainings, progress, logs, fbUsers, temp,
                    genCalls, settings, calls >>

(* --------------------------- GET /api/users/me ------------------------- *)
\* The body of a response is a set of document views of one shape.
Doc(kind, id, ownerId, role, completed, cert) ==
    [ kind |-> kind, id |-> id, ownerId |-> ownerId, role |-> role,
      completed |-> completed, cert |-> cert ]

UserDoc(uid, us) == Doc("user", 1, uid, us[uid][1], FALSE, NoCert)

\* The handler proper: User.findOne({ firebaseUid }) once req.user is set.
UsersMeReply(uid, us) ==
    IF us[uid] = << >>
    THEN Respond("usersMe", uid, 404, ResolveCaller(uid, us), 0, NoBody)
    ELSE Respond("usersMe", uid, 200, ResolveCaller(uid, us), 1, { UserDoc(uid, us) })

\* authenticate up to its two lookups; the request waits in `authSave`
\* when it found neither an Employee nor a User and is about to insert one.
UsersMeBegin(s, uid) ==
    /\ HasToken(uid)
    /\ FreeSlot(s)
    /\ IF FindEmployeeByUid(uid) = 0 /\ users[uid] = << >>
       THEN /\ calls' = [ calls EXCEPT ![s] =
                            [ Idle EXCEPT !.pc = "authSave", !.op = "usersMe",
                                          !.uid = uid,
                                          !.caller = ResolveCaller(uid, users) ] ]
            /\ UNCHANGED resp
       ELSE /\ resp' = UsersMeReply(uid, users)
            /\ UNCHANGED calls
    /\ UNCHANGED << users, employees, sops, trainings, progress, logs, fbUsers,
                    temp, genCalls, settings >>

\* new User({ firebaseUid, email }).save(), then the handler.
UsersMeSave(s) ==
    /\ calls[s].pc = "authSave"
    /\ calls[s].op = "usersMe"
    /\ Len(users[calls[s].uid]) < MaxUserDocs
    /\ users' = [ users EXCEPT ![calls[s].uid] = Append(@, DefaultUserRole) ]
    /\ resp' = [ UsersMeReply(calls[s].uid, users') EXCEPT
                   !.isEmployee = calls[s].caller.isEmployee,
                   !.role = calls[s].caller.role,
                   !.tenant = calls[s].caller.tenant ]
    /\ calls' = [ calls EXCEPT ![s] = Idle ]
    /\ UNCHANGED << employees, sops, trainings, progress, logs, fbUsers, temp,
                    genCalls, settings >>

(* ------------------------------- addLog -------------------------------- *)
AddLog(ownerId) == [ logs EXCEPT ![ownerId] = @ + 1 ]

(* --------------------------- POST /api/employees ----------------------- *)
FirebaseAdminInitialized == TRUE

\* The check that lets a body without dept through.
MissingEmployeeFieldsLax(body) == body.name = "" \/ body.email = ""

\* !name || !email || !dept
MissingEmployeeFields(body) == body.name = "" \/ body.email = "" \/ body.dept = ""

PostEmployees(uid, body) ==
    LET caller == Authenticate(uid)
        name == body.name
        email == body.email
        dept == body.dept
        reply(status, id, docs) ==
            WithSent(Respond("postEmployees", uid, status, caller, id, docs), body)
        newId == Len(employees) + 1
        emp == NewEmployee(uid, UidOfEmail(email), name, email, dept)
    IN  /\ HasToken(uid)
        /\ users' = AuthUsers(uid)
        /\ IF ~RequireAdmin(caller)
           THEN /\ resp' = reply(403, 0, NoBody)
                /\ UNCHANGED << employees, logs, fbUsers >>
           ELSE IF MissingEmployeeFields(body)
           THEN /\ resp' = reply(400, 0, NoBody)
                /\ UNCHANGED << employees, logs, fbUsers >>
           ELSE IF ~FirebaseAdminInitialized
           THEN /\ resp' = reply(400, 0, NoBody)
                /\ UNCHANGED << employees, logs, fbUsers >>
           ELSE /\ Len(employees) < MaxEmployees
                /\ logs[uid] < MaxLogs
                /\ fbUsers' = fbUsers \cup { email }
                /\ employees' = Append(employees, emp)
                /\ logs' = AddLog(uid)
                /\ resp' = reply(200, newId,
                                 { Doc("employee", newId, uid, "staff", FALSE, NoCert) })
        /\ UNCHANGED << sops, trainings, progress, temp, genCalls, settings, calls >>

(* -------------------------- DELETE /api/employees/:id ------------------ *)
\* The lookup by _id alone, whoever owns the Employee.
FindOwnEmployeeAnyOwner(id, ownerId) == id \in LiveIds(employees)

\* Employee.findOne({ _id, ownerId })
FindOwnEmployee(id, ownerId) ==
    id \in LiveIds(employees) /\ employees[id].ownerId = ownerId

DeleteEmployee(uid, id) ==
    LET caller == Authenticate(uid)
        reply(status, body) == Respond("deleteEmployee", uid, status, caller, id, body)
        found == FindOwnEmployee(id, uid)
    IN  /\ HasToken(uid)
        /\ users' = AuthUsers(uid)
        /\ IF ~RequireAdmin(caller)
           THEN /\ resp' = reply(403, NoBody)
                /\ UNCHANGED << employees, logs >>
           ELSE IF ~found
           THEN /\ resp' = reply(404, NoBody)
                /\ UNCHANGED << employees, logs >>
           ELSE /\ logs[uid] < MaxLogs
                /\ employees' = [ employees EXCEPT ![id] = GoneEmployee ]
                /\ logs' = AddLog(uid)
                /\ resp' = reply(200, NoBody)
        /\ UNCHANGED << sops, trainings, progress, fbUsers, temp, genCalls, settings, calls >>

(* ----------------------------- GET /api/employees ---------------------- *)
GetEmployees(uid) ==
    LET caller == Authenticate(uid)
        mine == { i \in LiveIds(employees) : employees[i].ownerId = uid }
    IN  /\ HasToken(uid)
        /\ users' = AuthUsers(uid)
        /\ resp' = IF ~RequireAdmin(caller)
                   THEN Respond("getEmployees", uid, 403, caller, 0, NoBody)
                   ELSE Respond("getEmployees", uid, 200, caller, 0,
                                { Doc("employee", i, employees[i].ownerId,
                                      employees[i].role, FALSE, NoCert) : i \in mine })
        /\ UNCHANGED << employees, sops, trainings, progress, logs, fbUsers, temp,
                        genCalls, settings, calls >>

(* ------------------------------ SOP schema ----------------------------- *)
\* The document of { ownerId, ...req.body }: the body's ownerId, when it
\* carries one, overrides the caller's.
NewSopSpread(ownerId, body) ==
    [ live |-> TRUE,
      ownerId |-> IF "ownerId" \in DOMAIN body THEN body.ownerId ELSE ownerId,
      title |-> body.title, dept |-> body.dept, content |-> body.content,
      assignedTo |-> body.assignedTo.val, updated |-> 0 ]

NewSop(ownerId, body) ==
    [ live |-> TRUE, ownerId |-> ownerId, title |-> body.title,
      dept |-> body.dept, content |-> body.content,
      assignedTo |-> body.assignedTo.val, updated |-> 0 ]

GoneSop ==
    [ live |-> FALSE, ownerId |-> "", title |-> "", dept |-> "", content |-> "",
      assignedTo |-> {}, updated |-> 0 ]

SopDoc(i) == Doc("sop", i, sops[i].ownerId, "", FALSE, NoCert)

\* populate("assignedTo"): the references that resolve to an Employee
Populate(ids) == ids \cap LiveIds(employees)

\* The SOP as GET /api/sops/:id returns it, assignedTo populated.
SopView(i) ==
    [ kind |-> "sop", id |-> i, ownerId |-> sops[i].ownerId, role |-> "",
      completed |-> FALSE, cert |-> NoCert, title |-> sops[i].title,
      dept |-> sops[i].dept, content |-> sops[i].content,
      assignedTo |-> Populate(sops[i].assignedTo) ]

(* ---------------- POST /api/sops (first registration wins) ------------- *)
PostSops(uid, body) ==
    LET caller == Authenticate(uid)
        newId == Len(sops) + 1
    IN  /\ HasToken(uid)
        /\ users' = AuthUsers(uid)
        /\ IF body.title = "" \/ body.dept = "" \/ body.content = ""
           THEN /\ resp' = WithSent(Respond("postSops", uid, 400, caller, 0, NoBody),
                                     body)
                /\ UNCHANGED sops
           ELSE /\ Len(sops) < MaxSops
                /\ sops' = Append(sops, NewSop(caller.firebaseUid, body))
                /\ resp' = WithSent(Respond("postSops", uid, 200, caller, newId,
                                            { Doc("sop", newId, caller.firebaseUid, "",
                                                  FALSE, NoCert) }),
                                    body)
        /\ UNCHANGED << employees, trainings, progress, logs, fbUsers, temp,
                        genCalls, settings, calls >>

(* ----------------------------- PUT /api/sops/:id ----------------------- *)
\* The merge of the handler: a falsy field of the body leaves the SOP's.
\* The merge that lets the body stand for the whole document: a field the
\* body lacks is emptied.
MergeSopReplace(sop, body) ==
    [ sop EXCEPT
        !.title = body.title,
        !.dept = body.dept,
        !.content = body.content,
        !.assignedTo = body.assignedTo.val,
        !.updated = @ + 1 ]

MergeSop(sop, body) ==
    [ sop EXCEPT
        !.title = IF body.title # "" THEN body.title ELSE @,
        !.dept = IF body.dept # "" THEN body.dept ELSE @,
        !.content = IF body.content # "" THEN body.content ELSE @,
        !.assignedTo = IF body.assignedTo.present THEN body.assignedTo.val ELSE @,
        !.updated = @ + 1 ]

\* SOP.findById(id)
FindSopById(id) == id \in LiveIds(sops)

PutSop(uid, id, body) ==
    LET caller == Authenticate(uid)
    IN  /\ HasToken(uid)
        /\ users' = AuthUsers(uid)
        /\ IF ~FindSopById(id)
           THEN /\ resp' = Respond("putSop", uid, 404, caller, id, NoBody)
                /\ UNCHANGED sops
           ELSE /\ sops[id].updated < MaxStamp
                /\ sops' = [ sops EXCEPT ![id] = MergeSop(@, body) ]
                /\ resp' = WithSent(Respond("putSop", uid, 200, caller, id,
                                            { SopDoc(id) }), body)
        /\ UNCHANGED << employees, trainings, progress, logs, fbUsers, temp,
                        genCalls, settings, calls >>

(* ----------------------------- GET /api/sops/:id ----------------------- *)
\* The lookup by _id alone, whoever owns the SOP.
FindOwnSopAnyOwner(id, ownerId) == id \in LiveIds(sops)

\* SOP.findOne({ _id, ownerId })
FindOwnSop(id, ownerId) == id \in LiveIds(sops) /\ sops[id].ownerId = ownerId

GetSop(uid, id) ==
    LET caller == Authenticate(uid)
    IN  /\ HasToken(uid)
        /\ users' = AuthUsers(uid)
        /\ resp' = IF ~FindOwnSop(id, caller.firebaseUid)
                   THEN Respond("getSop", uid, 404, caller, id, NoBody)
                   ELSE Respond("getSop", uid, 200, caller, id, { SopView(id) })
        /\ UNCHANGED << employees, sops, trainings, progress, logs, fbUsers, temp,
                        genCalls, settings, calls >>

(* -------------------------- PUT /api/sops/:id/clear -------------------- *)
ClearSop(uid, id) ==
    LET caller == Authenticate(uid)
    IN  /\ HasToken(uid)
        /\ users' = AuthUsers(uid)
        /\ IF ~FindOwnSop(id, caller.firebaseUid)
           THEN /\ resp' = Respond("clearSop", uid, 404, caller, id, NoBody)
                /\ UNCHANGED sops
           ELSE /\ sops[id].updated < MaxStamp
                /\ sops' = [ sops EXCEPT ![id].content = "", ![id].updated = @ + 1 ]
                /\ resp' = Respond("clearSop", uid, 200, caller, id, { SopDoc(id) })
        /\ UNCHANGED << employees, trainings, progress, logs, fbUsers, temp,
                        genCalls, settings, calls >>

(* ---------------------------- DELETE /api/sops/:id --------------------- *)
DeleteSop(uid, id) ==
    LET caller == Authenticate(uid)
    IN  /\ HasToken(uid)
        /\ users' = AuthUsers(uid)
        /\ IF ~RequireAdmin(caller)
           THEN /\ resp' = Respond("deleteSop", uid, 403, caller, id, NoBody)
                /\ UNCHANGED << sops, logs >>
           ELSE IF ~FindOwnSop(id, caller.firebaseUid)
           THEN /\ resp' = Respond("deleteSop", uid, 404, caller, id, NoBody)
                /\ UNCHANGED << sops, logs >>
           ELSE /\ logs[uid] < MaxLogs
                /\ sops' = [ sops EXCEPT ![id] = GoneSop ]
                /\ logs' = AddLog(uid)
                /\ resp' = Respond("deleteSop", uid, 200, caller, id, NoBody)
        /\ UNCHANGED << employees, trainings, progress, fbUsers, temp, genCalls, settings,
                        calls >>

(* ---------------------------- GET /api/employee/sops ------------------- *)
GetEmployeeSops(uid) ==
    LET caller == Authenticate(uid)
        e == FindEmployeeByUid(uid)
        mine == { i \in LiveIds(sops) :
                    sops[i].ownerId = employees[e].ownerId /\ e \in sops[i].assignedTo }
    IN  /\ HasToken(uid)
        /\ users' = AuthUsers(uid)
        /\ resp' = IF ~caller.isEmployee
                   THEN Respond("getEmployeeSops", uid, 403, caller, 0, NoBody)
                   ELSE Respond("getEmployeeSops", uid, 200, caller, 0,
                                { SopDoc(i) : i \in mine })
        /\ UNCHANGED << employees, sops, trainings, progress, logs, fbUsers, temp,
                        genCalls, settings, calls >>

(* -------------------------- GET /api/employee/sops/:id ----------------- *)
GetEmployeeSop(uid, id) ==
    LET caller == Authenticate(uid)
        e == FindEmployeeByUid(uid)
    IN  /\ HasToken(uid)
        /\ users' = AuthUsers(uid)
        /\ resp' = IF ~caller.isEmployee
                   THEN Respond("getEmployeeSop", uid, 403, caller, id, NoBody)
                   ELSE IF ~(id \in LiveIds(sops) /\ e \in sops[id].assignedTo)
                   THEN Respond("getEmployeeSop", uid, 404, caller, id, NoBody)
                   ELSE Respond("getEmployeeSop", uid, 200, caller, id, { SopDoc(id) })
        /\ UNCHANGED << employees, sops, trainings, progress, logs, fbUsers, temp,
                        genCalls, settings, calls >>

(* ------------------------- EmployeeSOPProgress ------------------------- *)
NewProgress(employeeId, sopId) ==
    [ employeeId |-> employeeId, sopId |-> sopId, completed |-> FALSE,
      completedAt |-> 0, certificateUrl |-> NoCert ]

\* EmployeeSOPProgress.findOne({ employeeId, sopId }): 0 when there is none
FindProgress(employeeId, sopId) ==
    LET m == { i \in DOMAIN progress :
                 progress[i].employeeId = employeeId /\ progress[i].sopId = sopId }
    IN  IF m = {} THEN 0 ELSE Least(m)

ProgressDoc(p, prog) ==
    Doc("progress", p, "", "", prog[p].completed, prog[p].certificateUrl)

(* --------------------------- GET /api/sops/:id/progress ---------------- *)
GetSopProgress(uid, id) ==
    LET caller == Authenticate(uid)
        p == FindProgress(caller.firebaseUid, id)
    IN  /\ HasToken(uid)
        /\ users' = AuthUsers(uid)
        /\ resp' = Respond("getSopProgress", uid, 200, caller, id,
                           IF p = 0 THEN { Doc("progress", 0, "", "", FALSE, NoCert) }
                           ELSE { ProgressDoc(p, progress) })
        /\ UNCHANGED << employees, sops, trainings, progress, logs, fbUsers, temp,
                        genCalls, settings, calls >>

(* --------------------- uploadFile, generateCertificate ----------------- *)
\* uploadFile(localPath): a failed upload throws and leaves the file; a
\* successful one unlinks it and returns the url.
UploadFile(uploadOk) ==
    IF uploadOk THEN [ threw |-> FALSE, fileLeft |-> FALSE ]
    ELSE [ threw |-> TRUE, fileLeft |-> TRUE ]

\* fs.unlinkSync(path) throws ENOENT for a file that is not there.
UnlinkSync(fileThere) == [ threw |-> ~fileThere, fileLeft |-> FALSE ]

\* generateCertificate: write temp file, uploadFile, unlink the temp file.
GenerateCertificate(uploadOk) ==
    LET up == UploadFile(uploadOk)
        rm == UnlinkSync(up.fileLeft)
    IN  IF up.threw THEN [ threw |-> TRUE, left |-> 1 ]
        ELSE IF rm.threw THEN [ threw |-> TRUE, left |-> 0 ]
        ELSE [ threw |-> FALSE, left |-> 0 ]

(* ------ POST /api/sops/:id/complete, POST /api/employee/sops/:id/complete *)
\* The request waits before EmployeeSOPProgress.create when it found no
\* progress document, before generateCertificate when it found one.
Await(op, uid, id, caller, p) ==
    [ pc |-> IF p = 0 THEN "create" ELSE "generate", op |-> op, uid |-> uid,
      id |-> id, prog |-> p, caller |-> caller, push |-> FALSE, status |-> "",
      sent |-> NoSettingsBody ]

\* POST /api/sops/:id/complete up to its progress lookup
SopCompleteBegin(s, uid, id) ==
    LET caller == Authenticate(uid)
        e == FindEmployeeByUid(uid)
        p == FindProgress(uid, id)
        reply(status, docs) == Respond("sopComplete", uid, status, caller, id, docs)
    IN  /\ HasToken(uid)
        /\ FreeSlot(s)
        /\ users' = AuthUsers(uid)
        /\ IF e = 0 \/ ~FindSopById(id)
           THEN resp' = reply(404, NoBody) /\ UNCHANGED calls
           ELSE IF sops[id].ownerId # employees[e].ownerId
           THEN resp' = reply(403, NoBody) /\ UNCHANGED calls
           ELSE IF p # 0 /\ progress[p].completed
           THEN resp' = reply(200, { ProgressDoc(p, progress) }) /\ UNCHANGED calls
           ELSE /\ calls' = [ calls EXCEPT ![s] = Await("sopComplete", uid, id, caller, p) ]
                /\ UNCHANGED resp
        /\ UNCHANGED << employees, sops, trainings, progress, logs, fbUsers, temp,
                        genCalls, settings >>

\* POST /api/employee/sops/:id/complete (first registration) up to its
\* progress lookup
EmployeeSopCompleteBegin(s, uid, id) ==
    LET caller == Authenticate(uid)
        p == FindProgress(uid, id)
        reply(status, docs) ==
            Respond("employeeSopComplete", uid, status, caller, id, docs)
    IN  /\ HasToken(uid)
        /\ FreeSlot(s)
        /\ users' = AuthUsers(uid)
        /\ IF ~caller.isEmployee
           THEN resp' = reply(403, NoBody) /\ UNCHANGED calls
           ELSE IF ~FindSopById(id)
           THEN resp' = reply(404, NoBody) /\ UNCHANGED calls
           ELSE IF p # 0 /\ progress[p].completed
           THEN resp' = reply(200, { ProgressDoc(p, progress) }) /\ UNCHANGED calls
           ELSE /\ calls' = [ calls EXCEPT ![s] =
                                Await("employeeSopComplete", uid, id, caller, p) ]
                /\ UNCHANGED resp
        /\ UNCHANGED << employees, sops, trainings, progress, logs, fbUsers, temp,
                        genCalls, settings >>

\* EmployeeSOPProgress.create({ employeeId, sopId })
SopCompleteCreate(s) ==
    /\ calls[s].pc = "create"
    /\ progress' = Append(progress, NewProgress(calls[s].uid, calls[s].id))
    /\ calls' = [ calls EXCEPT ![s].pc = "generate", ![s].prog = Len(progress) + 1 ]
    /\ UNCHANGED << users, employees, sops, trainings, logs, fbUsers, temp,
                    genCalls, settings, resp >>

\* A handler that stores the marks it made in memory before the throw.
FailedGenerateMarked(prog, p) ==
    [ prog EXCEPT ![p].completed = TRUE, ![p].completedAt = 1 ]

\* The progress collection after generateCertificate threw in the request
\* on document p: completed and completedAt were set on the copy in memory
\* alone, the catch saves nothing.
FailedGenerate(prog, p) == prog

\* generateCertificate and what follows it: a throw is answered 500 and
\* saves nothing; a url is saved on the progress document, and the first of
\* the two handlers then saves the employee and appends the log.
SopCompleteGenerate(s, uploadOk) ==
    LET c == calls[s]
        key == << c.uid, c.id >>
        g == GenerateCertificate(uploadOk)
        url == genCalls[key] + 1
        e == c.caller.empId
        empThere == e \in LiveIds(employees)
        saved == [ progress EXCEPT ![c.prog].completed = TRUE,
                                   ![c.prog].completedAt = 1,
                                   ![c.prog].certificateUrl = url ]
        reply(status, docs) == Respond(c.op, c.uid, status, c.caller, c.id, docs)
    IN  /\ c.pc = "generate"
        /\ genCalls[key] < MaxGen
        /\ temp + g.left <= MaxTemp
        /\ genCalls' = [ genCalls EXCEPT ![key] = @ + 1 ]
        /\ temp' = temp + g.left
        /\ calls' = [ calls EXCEPT ![s] = Idle ]
        /\ IF g.threw
           THEN /\ resp' = reply(500, NoBody)
                /\ progress' = FailedGenerate(progress, c.prog)
                /\ UNCHANGED << employees, logs >>
           ELSE IF c.op = "employeeSopComplete"
           THEN /\ progress' = saved
                /\ resp' = reply(200, { ProgressDoc(c.prog, saved) })
                /\ UNCHANGED << employees, logs >>
           ELSE IF ~empThere
           THEN /\ progress' = saved
                /\ resp' = reply(500, NoBody)
                /\ UNCHANGED << employees, logs >>
           ELSE /\ logs[c.caller.tenant] < MaxLogs
                /\ progress' = saved
                /\ employees' =
                     [ employees EXCEPT
                         ![e].completedBy = @ + 1,
                         ![e].pendingSOPs = IF @ > 0 THEN @ - 1 ELSE @ ]
                /\ logs' = AddLog(c.caller.tenant)
                /\ resp' = reply(200, { ProgressDoc(c.prog, saved) })
        /\ UNCHANGED << users, sops, trainings, fbUsers, settings >>

(* --------------------------- TrainingVideo ----------------------------- *)
NewTraining(ownerId, body) ==
    [ live |-> TRUE, ownerId |-> ownerId, title |-> body.title,
      videoUrl |-> body.videoUrl, assignedEmployees |-> body.assignedEmployees,
      status |-> "active", completedBy |-> << >> ]

GoneTraining ==
    [ live |-> FALSE, ownerId |-> "", title |-> "", videoUrl |-> "",
      assignedEmployees |-> {}, status |-> "", completedBy |-> << >> ]

TrainingDoc(i, tr) == Doc("training", i, tr[i].ownerId, tr[i].status, FALSE, NoCert)

\* The training as GET /api/training/:id returns it.
TrainingView(i) ==
    [ kind |-> "training", id |-> i, ownerId |-> trainings[i].ownerId,
      role |-> trainings[i].status, completed |-> FALSE, cert |-> NoCert,
      title |-> trainings[i].title, videoUrl |-> trainings[i].videoUrl,
      assignedEmployees |-> trainings[i].assignedEmployees ]

Includes(seq, x) == \E k \in DOMAIN seq : seq[k] = x

(* ----------------------------- POST /api/training ---------------------- *)
\* logOk: whether SystemLog.create inside addLog resolves.  A rejection is
\* thrown into the handler's try and answered by its catch.
PostTrainingLog(uid, body, logOk) ==
    LET caller == Authenticate(uid)
        newId == Len(trainings) + 1
        created == Append(trainings, NewTraining(caller.firebaseUid, body))
        reply(status, i, docs) ==
            WithSent(Respond("postTraining", uid, status, caller, i, docs), body)
    IN  /\ HasToken(uid)
        /\ users' = AuthUsers(uid)
        /\ IF ~RequireAdmin(caller)
           THEN resp' = reply(403, 0, NoBody) /\ UNCHANGED << trainings, logs >>
           ELSE IF body.title = "" \/ body.videoUrl = ""
           THEN resp' = reply(400, 0, NoBody) /\ UNCHANGED << trainings, logs >>
           ELSE /\ Len(trainings) < MaxTrainings
                /\ logOk => logs[uid] < MaxLogs
                /\ trainings' = created
                /\ logs' = IF logOk THEN AddLog(uid) ELSE logs
                /\ resp' = IF logOk
                           THEN reply(200, newId, { TrainingDoc(newId, created) })
                           ELSE reply(500, 0, NoBody)
        /\ UNCHANGED << employees, sops, progress, fbUsers, temp, genCalls, settings, calls >>

\* The handler while the log store accepts every append.
PostTraining(uid, body) == PostTrainingLog(uid, body, TRUE)

(* --------------------------- DELETE /api/training/:id ------------------ *)
\* TrainingVideo.findOne({ _id, ownerId })
FindOwnTraining(id, ownerId) ==
    id \in LiveIds(trainings) /\ trainings[id].ownerId = ownerId

DeleteTraining(uid, id) ==
    LET caller == Authenticate(uid)
        reply(status) == Respond("deleteTraining", uid, status, caller, id, NoBody)
    IN  /\ HasToken(uid)
        /\ users' = AuthUsers(uid)
        /\ IF ~RequireAdmin(caller)
           THEN resp' = reply(403) /\ UNCHANGED << trainings, logs >>
           ELSE IF ~FindOwnTraining(id, caller.firebaseUid)
           THEN resp' = reply(404) /\ UNCHANGED << trainings, logs >>
           ELSE /\ logs[uid] < MaxLogs
                /\ trainings' = [ trainings EXCEPT ![id] = GoneTraining ]
                /\ logs' = AddLog(uid)
                /\ resp' = reply(200)
        /\ UNCHANGED << employees, sops, progress, fbUsers, temp, genCalls, settings, calls >>

(* ---------------------------- GET /api/training/:id -------------------- *)
GetTraining(uid, id) ==
    LET caller == Authenticate(uid)
    IN  /\ HasToken(uid)
        /\ users' = AuthUsers(uid)
        /\ resp' = IF ~FindOwnTraining(id, caller.firebaseUid)
                   THEN Respond("getTraining", uid, 404, caller, id, NoBody)
                   ELSE Respond("getTraining", uid, 200, caller, id,
                                { TrainingView(id) })
        /\ UNCHANGED << employees, sops, trainings, progress, logs, fbUsers, temp,
                        genCalls, settings, calls >>

(* ------------------------ POST /api/training/:id/complete -------------- *)
\* The document saved when `some` stands where the handler has `every`:
\* completed as soon as one assignee is in.
CompletedTrainingSome(tr, uid) ==
    LET by == IF Includes(tr.completedBy, uid) THEN tr.completedBy
              ELSE Append(tr.completedBy, uid)
        someCompleted == \E a \in tr.assignedEmployees : Includes(by, a)
    IN  [ tr EXCEPT
            !.completedBy = by,
            !.status = IF tr.assignedEmployees = {} THEN "completed"
                       ELSE IF someCompleted THEN "completed" ELSE @ ]

\* The document the handler saves: the employee's uid pushed when absent,
\* the status completed for a public training or once every assignee is in.
CompletedTraining(tr, uid) ==
    LET by == IF Includes(tr.completedBy, uid) THEN tr.completedBy
              ELSE Append(tr.completedBy, uid)
        allCompleted == \A a \in tr.assignedEmployees : Includes(by, a)
    IN  [ tr EXCEPT
            !.completedBy = by,
            !.status = IF tr.assignedEmployees = {} THEN "completed"
                       ELSE IF allCompleted THEN "completed" ELSE @ ]

\* A gate that lets every employee of the tenant through.
NotAssignedNever(tr, uid) == FALSE

\* assignedEmployees.length > 0 && !assignedEmployees.includes(uid)
NotAssigned(tr, uid) == tr.assignedEmployees # {} /\ uid \notin tr.assignedEmployees

CompleteTrainingLog(uid, id, logOk) ==
    LET caller == Authenticate(uid)
        e == FindEmployeeByUid(uid)
        saved == [ trainings EXCEPT ![id] = CompletedTraining(@, uid) ]
        reply(status, docs) == Respond("completeTraining", uid, status, caller, id, docs)
    IN  /\ HasToken(uid)
        /\ users' = AuthUsers(uid)
        /\ IF e = 0 \/ id \notin LiveIds(trainings)
           THEN resp' = reply(404, NoBody) /\ UNCHANGED << trainings, employees, logs >>
           ELSE IF trainings[id].ownerId # employees[e].ownerId
           THEN resp' = reply(403, NoBody) /\ UNCHANGED << trainings, employees, logs >>
           ELSE IF NotAssigned(trainings[id], uid)
           THEN resp' = reply(403, NoBody) /\ UNCHANGED << trainings, employees, logs >>
           ELSE /\ logOk => logs[employees[e].ownerId] < MaxLogs
                /\ trainings' = saved
                /\ employees' = [ employees EXCEPT ![e].completedTrainings = @ \cup { id } ]
                /\ logs' = IF logOk THEN AddLog(employees[e].ownerId) ELSE logs
                /\ resp' = IF logOk THEN reply(200, { TrainingDoc(id, saved) })
                           ELSE reply(500, NoBody)
        /\ UNCHANGED << sops, progress, fbUsers, temp, genCalls, settings, calls >>

\* The handler while the log store accepts every append.
CompleteTraining(uid, id) == CompleteTrainingLog(uid, id, TRUE)

(* ------------- POST /api/training/:id/complete, interleaved ------------ *)
\* The handler up to its read of the training: the checks, and the changes
\* made to the document in memory.  training.save() sends the changes
\* alone: the uid pushed onto completedBy ($push) when the read did not
\* hold it, and the status when the handler set it.
CompleteTrainingBegin(s, uid, id) ==
    LET caller == Authenticate(uid)
        e == FindEmployeeByUid(uid)
        inMemory == CompletedTraining(trainings[id], uid)
        reply(status, docs) == Respond("completeTraining", uid, status, caller, id, docs)
    IN  /\ HasToken(uid)
        /\ FreeSlot(s)
        /\ users' = AuthUsers(uid)
        /\ IF e = 0 \/ id \notin LiveIds(trainings)
           THEN resp' = reply(404, NoBody) /\ UNCHANGED calls
           ELSE IF trainings[id].ownerId # employees[e].ownerId
           THEN resp' = reply(403, NoBody) /\ UNCHANGED calls
           ELSE IF NotAssigned(trainings[id], uid)
           THEN resp' = reply(403, NoBody) /\ UNCHANGED calls
           ELSE /\ calls' = [ calls EXCEPT ![s] =
                                [ Idle EXCEPT !.pc = "trainingSave",
                                              !.op = "completeTraining",
                                              !.uid = uid, !.id = id,
                                              !.caller = caller,
                                              !.push = ~Includes(trainings[id].completedBy, uid),
                                              !.status = inMemory.status ] ]
                /\ UNCHANGED resp
        /\ UNCHANGED << employees, sops, trainings, progress, logs, fbUsers, temp,
                        genCalls, settings >>

\* A save that writes the status held in memory whether or not the handler
\* set it.
SaveTrainingWhole(tr, c) ==
    [ tr EXCEPT !.completedBy = IF c.push THEN Append(@, c.uid) ELSE @,
                !.status = c.status ]

\* training.save() of request c on the stored document tr: the paths the
\* handler modified, and no other.
SaveTraining(tr, c) ==
    [ tr EXCEPT !.completedBy = IF c.push THEN Append(@, c.uid) ELSE @,
                !.status = IF c.status = "completed" THEN "completed" ELSE @ ]

\* training.save(), emp.save(), addLog and the response.  A save of a
\* document that is gone is rejected and the catch answers 500.
CompleteTrainingSave(s) ==
    LET c == calls[s]
        e == c.caller.empId
        saved == [ trainings EXCEPT ![c.id] = SaveTraining(@, c) ]
        reply(status, docs) ==
            Respond("completeTraining", c.uid, status, c.caller, c.id, docs)
    IN  /\ c.pc = "trainingSave"
        /\ calls' = [ calls EXCEPT ![s] = Idle ]
        /\ IF c.id \notin LiveIds(trainings)
           THEN resp' = reply(500, NoBody) /\ UNCHANGED << trainings, employees, logs >>
           ELSE IF e \notin LiveIds(employees)
           THEN /\ trainings' = saved
                /\ resp' = reply(500, NoBody)
                /\ UNCHANGED << employees, logs >>
           ELSE /\ logs[employees[e].ownerId] < MaxLogs
                /\ trainings' = saved
                /\ employees' = [ employees EXCEPT ![e].completedTrainings = @ \cup { c.id } ]
                /\ logs' = AddLog(employees[e].ownerId)
                /\ resp' = reply(200, { Doc("training", c.id, trainings[c.id].ownerId,
                                            c.status, FALSE, NoCert) })
        /\ UNCHANGED << users, sops, progress, fbUsers, temp, genCalls, settings >>

(* ----------------------------- GET /api/stats -------------------------- *)
\* EmployeeSOPProgress.countDocuments({ ownerId, completed: true }). The
\* schema of EmployeeSOPProgress has no ownerId path. With strictQuery on,
\* Mongoose drops the unknown path and the filter is { completed: true };
\* with strictQuery off the path reaches the database, where no stored
\* record carries it. Which of the two holds depends on the installed
\* Mongoose, so both are outcomes.
CountCompletedProgress(ownerId, strictQuery) ==
    IF strictQuery
    THEN Cardinality({ i \in DOMAIN progress : progress[i].completed })
    ELSE 0

\* A response together with the numbers GET /api/stats puts in it.
WithStats(r, stats) ==
    [ op |-> r.op, uid |-> r.uid, status |-> r.status, isEmployee |-> r.isEmployee,
      role |-> r.role, tenant |-> r.tenant, id |-> r.id, body |-> r.body,
      stats |-> stats ]

GetStats(uid, strictQuery) ==
    LET caller == Authenticate(uid)
        ownerId == uid
        nEmployees == Cardinality({ i \in LiveIds(employees) :
                                      employees[i].ownerId = ownerId })
        activeTrainings == Cardinality({ i \in LiveIds(trainings) :
                                /\ trainings[i].ownerId = ownerId
                                /\ trainings[i].status = "active" })
        completedTrainings == Cardinality({ i \in LiveIds(trainings) :
                                /\ trainings[i].ownerId = ownerId
                                /\ trainings[i].status = "completed" })
        totalSops == Cardinality({ i \in LiveIds(sops) : sops[i].ownerId = ownerId })
        completedSOPs == CountCompletedProgress(ownerId, strictQuery)
        pendingSOPs == IF totalSops - completedSOPs < 0 THEN 0
                       ELSE totalSops - completedSOPs
    IN  /\ HasToken(uid)
        /\ users' = AuthUsers(uid)
        /\ resp' = IF ~RequireAdmin(caller)
                   THEN Respond("getStats", uid, 403, caller, 0, NoBody)
                   ELSE WithStats(Respond("getStats", uid, 200, caller, 0, NoBody),
                                  [ employees |-> nEmployees,
                                    activeTrainings |-> activeTrainings,
                                    completedTrainings |-> completedTrainings,
                                    completedSOPs |-> completedSOPs,
                                    pendingSOPs |-> pendingSOPs ])
        /\ UNCHANGED << employees, sops, trainings, progress, logs, fbUsers, temp,
                        genCalls, settings, calls >>

(* ------------------------------ settings ------------------------------- *)
\* The document SystemSettings.create({ ownerId }) stores: every section at
\* its schema defaults.
DefaultSettings ==
    [ websocket |-> "default", notifications |-> "default", updated |-> 0 ]

\* { ...settings.toObject(), ...incoming, updatedAt: new Date() }
MergeSettings(doc, incoming) ==
    [ websocket |-> IF incoming.websocket = "" THEN doc.websocket
                    ELSE incoming.websocket,
      notifications |-> IF incoming.notifications = "" THEN doc.notifications
                        ELSE incoming.notifications,
      updated |-> 1 ]

\* A response together with the settings document it carries.
WithSettings(r, doc) ==
    [ op |-> r.op, uid |-> r.uid, status |-> r.status, isEmployee |-> r.isEmployee,
      role |-> r.role, tenant |-> r.tenant, id |-> r.id, body |-> r.body,
      settings |-> doc ]

\* The handler once getOrCreateSettings has returned the first document of
\* ownerId in `all`: GET answers with it, PUT merges the body into it,
\* saves, logs and answers with it.  logged: the appends made so far.
SettingsAnswer(op, uid, caller, body, all, logged) ==
    LET doc == IF op = "putSettings" THEN MergeSettings(all[1], body) ELSE all[1]
        appends == IF op = "putSettings" THEN logged + 1 ELSE logged
    IN  /\ logs[uid] + appends <= MaxLogs
        /\ settings' = [ settings EXCEPT ![uid] = [ all EXCEPT ![1] = doc ] ]
        /\ logs' = [ logs EXCEPT ![uid] = @ + appends ]
        /\ resp' = WithSettings(Respond(op, uid, 200, caller, 0, NoBody), doc)

\* GET or PUT /api/settings up to the findOne of getOrCreateSettings; the
\* request waits in `settingsCreate` when there is no document.
SettingsBegin(s, uid, op, body) ==
    LET caller == Authenticate(uid)
    IN  /\ HasToken(uid)
        /\ FreeSlot(s)
        /\ users' = AuthUsers(uid)
        /\ IF ~RequireAdmin(caller)
           THEN /\ resp' = Respond(op, uid, 403, caller, 0, NoBody)
                /\ UNCHANGED << settings, logs, calls >>
           ELSE IF settings[uid] # << >>
           THEN /\ SettingsAnswer(op, uid, caller, body, settings[uid], 0)
                /\ UNCHANGED calls
           ELSE /\ calls' = [ calls EXCEPT ![s] =
                                [ Idle EXCEPT !.pc = "settingsCreate", !.op = op,
                                              !.uid = uid, !.caller = caller,
                                              !.sent = body ] ]
                /\ UNCHANGED << settings, logs, resp >>
        /\ UNCHANGED << employees, sops, trainings, progress, fbUsers, temp,
                        genCalls >>

\* SystemSettings.create({ ownerId }), its addLog, and the rest of the
\* handler.  ownerId is unique in the schema: a create for an ownerId that
\* has a document by now is rejected, and the handler's catch answers 500.
SettingsCreate(s) ==
    LET c == calls[s]
    IN  /\ c.pc = "settingsCreate"
        /\ calls' = [ calls EXCEPT ![s] = Idle ]
        /\ IF settings[c.uid] # << >>
           THEN /\ resp' = Respond(c.op, c.uid, 500, c.caller, 0, NoBody)
                /\ UNCHANGED << settings, logs >>
           ELSE SettingsAnswer(c.op, c.uid, c.caller, c.sent, << DefaultSettings >>, 1)
        /\ UNCHANGED << users, employees, sops, trainings, progress, fbUsers, temp,
                        genCalls >>

(* ------------------------------ route dispatch ------------------------- *)
\* A request path is a sequence of segments: a literal, or the _id of a
\* document.  A route pattern's segment is a literal or a parameter (:id),
\* and a parameter matches any segment.  Express runs the first registered
\* route whose method and pattern match.
Lit(s) == [ lit |-> s, id |-> 0 ]
ObjId(i) == [ lit |-> "", id |-> i ]
Fixed(s) == [ lit |-> s, param |-> FALSE ]
Param(s) == [ lit |-> s, param |-> TRUE ]
Route(method, pattern, gate, handler) ==
    [ method |-> method, pattern |-> pattern, gate |-> gate, handler |-> handler ]

MatchRoute(route, method, path) ==
    /\ route.method = method
    /\ Len(route.pattern) = Len(path)
    /\ \A k \in DOMAIN path :
          \/ route.pattern[k].param
          \/ path[k].id = 0 /\ path[k].lit = route.pattern[k].lit

\* the handler of the first route that matches, "none" when no route does
Dispatch(routes, method, path) ==
    LET m == { k \in DOMAIN routes : MatchRoute(routes[k], method, path) }
    IN  IF m = {} THEN Route(method, << >>, "none", "none") ELSE routes[Least(m)]

\* The routes under /api/employees in the order app registers them.
EmployeeRoutes ==
    << Route("GET", << Fixed("api"), Fixed("employees") >>, "requireAdmin", "getEmployees"),
       Route("POST", << Fixed("api"), Fixed("employees") >>, "requireAdmin", "postEmployees"),
       Route("GET", << Fixed("api"), Fixed("employees"), Fixed("me") >>, "none",
             "getEmployeesMe"),
       Route("GET", << Fixed("api"), Fixed("employees") >>, "requireAdmin", "getEmployees"),
       Route("DELETE", << Fixed("api"), Fixed("employees"), Param("id") >>, "requireAdmin",
             "deleteEmployee"),
       Route("GET", << Fixed("api"), Fixed("employees"), Fixed("me"),
                       Fixed("sop-progress") >>, "none", "sopProgress") >>

MePath == << Lit("api"), Lit("employees"), Lit("me") >>

(* --------------------------- GET /api/employees/me --------------------- *)
GetEmployeesMe(uid) ==
    LET caller == Authenticate(uid)
        route == Dispatch(EmployeeRoutes, "GET", MePath)
        e == FindEmployeeByUid(caller.firebaseUid)
        reply(status, docs) == Respond(route.handler, uid, status, caller, e, docs)
    IN  /\ HasToken(uid)
        /\ users' = AuthUsers(uid)
        /\ resp' = IF route.gate = "requireAdmin" /\ ~RequireAdmin(caller)
                   THEN reply(403, NoBody)
                   ELSE IF e = 0 THEN reply(404, NoBody)
                   ELSE reply(200, { Doc("employee", e, employees[e].ownerId,
                                         employees[e].role, FALSE, NoCert) })
        /\ UNCHANGED << employees, sops, trainings, progress, logs, fbUsers, temp,
                        genCalls, settings, calls >>

(* ------------- the revision of part_001: users and employees ----------- *)
\* Its authenticate looks up the User alone and inserts one with role
\* "staff" when there is none; req.user.role is that User's role.
AuthUsers001(uid) ==
    IF users[uid] = << >> THEN [ users EXCEPT ![uid] = << "staff" >> ] ELSE users

Authenticate001(uid) ==
    [ isEmployee |-> FALSE, firebaseUid |-> uid, role |-> AuthUsers001(uid)[uid][1],
      tenant |-> uid, empId |-> 0 ]

\* role === "admin" is refused
RequireEmployee001(caller) == caller.role # "admin"

\* findOneAndUpdate({ firebaseUid }, { role: "admin" }, { upsert: true })
RegisterAdmin001(uid) ==
    /\ HasToken(uid)
    /\ users' = [ AuthUsers001(uid) EXCEPT ![uid][1] = "admin" ]
    /\ resp' = Respond("registerAdmin", uid, 200,
                       [ Authenticate001(uid) EXCEPT !.role = "admin" ], 0, NoBody)
    /\ UNCHANGED << employees, sops, trainings, progress, logs, fbUsers, temp,
                    genCalls, settings, calls >>

\* POST /api/employees: the body names the firebaseUid of an account the
\* client created beforehand.
PostEmployees001(uid, body) ==
    LET caller == Authenticate001(uid)
        firebaseUid == UidOfEmail(body.email)
        newId == Len(employees) + 1
        reply(status, id, docs) ==
            WithSent(Respond("postEmployees", uid, status, caller, id, docs), body)
    IN  /\ HasToken(uid)
        /\ users' = AuthUsers001(uid)
        /\ IF ~RequireAdmin(caller)
           THEN resp' = reply(403, 0, NoBody) /\ UNCHANGED << employees, fbUsers >>
           ELSE IF MissingEmployeeFields(body)
           THEN resp' = reply(400, 0, NoBody) /\ UNCHANGED << employees, fbUsers >>
           ELSE IF FindEmployeeByUid(firebaseUid) # 0
           THEN resp' = reply(400, 0, NoBody) /\ UNCHANGED << employees, fbUsers >>
           ELSE /\ Len(employees) < MaxEmployees
                /\ fbUsers' = fbUsers \cup { body.email }
                /\ employees' = Append(employees,
                                       NewEmployee(uid, firebaseUid, body.name,
                                                   body.email, body.dept))
                /\ resp' = reply(200, newId,
                                 { Doc("employee", newId, uid, "staff", FALSE, NoCert) })
        /\ UNCHANGED << sops, trainings, progress, logs, temp, genCalls, settings, calls >>

\* The GET routes under /api/employees in the order part_001 registers
\* them: the list, /:id behind requireAdmin, then /me behind
\* requireEmployee.
EmployeeRoutes001 ==
    << Route("GET", << Fixed("api"), Fixed("employees") >>, "requireAdmin", "getEmployees"),
       Route("GET", << Fixed("api"), Fixed("employees"), Param("id") >>, "requireAdmin",
             "getEmployee"),
       Route("GET", << Fixed("api"), Fixed("employees"), Fixed("me") >>,
             "requireEmployee", "getEmployeesMe") >>

\* GET /api/employees/<seg>, seg being "me" or an Employee's _id.
GetEmployeesSeg001(uid, seg) ==
    LET caller == Authenticate001(uid)
        route == Dispatch(EmployeeRoutes001, "GET", << Lit("api"), Lit("employees"), seg >>)
        me == FindEmployeeByUid(uid)
        reply(status, id, docs) ==
            WithSent(Respond(route.handler, uid, status, caller, id, docs), seg)
        view(i) == { Doc("employee", i, employees[i].ownerId, employees[i].role,
                         FALSE, NoCert) }
    IN  /\ HasToken(uid)
        /\ users' = AuthUsers001(uid)
        /\ resp' =
             IF route.gate = "requireAdmin" /\ ~RequireAdmin(caller)
             THEN reply(403, seg.id, NoBody)
             ELSE IF route.gate = "requireEmployee" /\ ~RequireEmployee001(caller)
             THEN reply(403, seg.id, NoBody)
             ELSE IF route.handler = "getEmployee"
             THEN \* findById of a segment that is no ObjectId throws: 500
                  IF seg.id = 0 THEN reply(500, 0, NoBody)
                  ELSE IF seg.id \notin LiveIds(employees)
                          \/ employees[seg.id].ownerId # uid
                  THEN reply(404, seg.id, NoBody)
                  ELSE reply(200, seg.id, view(seg.id))
             ELSE \* getEmployeesMe: { employee: false } when there is none
                  IF me = 0 THEN reply(200, 0, NoBody) ELSE reply(200, me, view(me))
        /\ UNCHANGED << employees, sops, trainings, progress, logs, fbUsers, temp,
                        genCalls, settings, calls >>

(* ------------------------------ next state ----------------------------- *)
\* Users, employees and the identity provider: requests handled in one step.
DirectoryOps ==
    \/ \E uid \in AdminUids : RegisterAdmin(uid)
    \/ \E uid \in Uids, body \in EmployeeBodies : PostEmployees(uid, body)
    \/ \E uid \in Uids, id \in EmpIds : DeleteEmployee(uid, id)
    \/ \E uid \in Uids : GetEmployees(uid)

\* An employee's read of its own record.
SelfOps == \E uid \in Uids : GetEmployeesMe(uid)

\* The aggregate read, under either treatment of its progress filter.
StatsOps == \E uid \in Uids, strictQuery \in BOOLEAN : GetStats(uid, strictQuery)

\* SOPs: requests handled in one step, naming the ids in `ids`.
SopOps(ids) ==
    \/ \E uid \in Uids, body \in SopBodies : PostSops(uid, body)
    \/ \E uid \in Uids, id \in ids, body \in SopPatches : PutSop(uid, id, body)
    \/ \E uid \in Uids, id \in ids : GetSop(uid, id)
    \/ \E uid \in Uids, id \in ids : ClearSop(uid, id)
    \/ \E uid \in Uids, id \in ids : DeleteSop(uid, id)
    \/ \E uid \in Uids : GetEmployeeSops(uid)
    \/ \E uid \in Uids, id \in ids : GetEmployeeSop(uid, id)
    \/ \E uid \in Uids, id \in ids : GetSopProgress(uid, id)

\* Trainings: requests handled in one step.
TrainingOps ==
    \/ \E uid \in Uids, body \in TrainingBodies : PostTraining(uid, body)
    \/ \E uid \in Uids, id \in TrainingIds : DeleteTraining(uid, id)
    \/ \E uid \in Uids, id \in TrainingIds : GetTraining(uid, id)
    \/ \E uid \in Uids, id \in TrainingIds : CompleteTraining(uid, id)

\* GET /api/users/me, split at the insert of authenticate.
UsersMeBegins == \E s \in Slots, uid \in Uids : UsersMeBegin(s, uid)
UsersMeSteps == \E s \in Slots : UsersMeSave(s)

\* SOP completion, split at its create and at generateCertificate.
SopCompleteBegins ==
    \/ \E s \in Slots, uid \in Uids, id \in SopIds : SopCompleteBegin(s, uid, id)
    \/ \E s \in Slots, uid \in Uids, id \in SopIds : EmployeeSopCompleteBegin(s, uid, id)
SopCompleteSteps ==
    \/ \E s \in Slots : SopCompleteCreate(s)
    \/ \E s \in Slots, uploadOk \in BOOLEAN : SopCompleteGenerate(s, uploadOk)

\* Training completion, split at its save.
CompleteTrainingBegins ==
    \E s \in Slots, uid \in Uids, id \in TrainingIds : CompleteTrainingBegin(s, uid, id)
CompleteTrainingSteps == \E s \in Slots : CompleteTrainingSave(s)

\* GET and PUT /api/settings, split at the create of getOrCreateSettings.
SettingsBegins ==
    \/ \E s \in Slots, uid \in Uids : SettingsBegin(s, uid, "getSettings", NoSettingsBody)
    \/ \E s \in Slots, uid \in Uids, body \in SettingsBodies :
          SettingsBegin(s, uid, "putSettings", body)
SettingsSteps == \E s \in Slots : SettingsCreate(s)

\* The whole service, requests one after another: none starts while one is
\* in flight.
Next ==
    \/ Quiet /\ (DirectoryOps \/ SelfOps \/ SopOps(SopIds) \/ TrainingOps \/ StatsOps)
    \/ Quiet /\ (SettingsBegins \/ CompleteTrainingBegins)
    \/ SettingsSteps
    \/ CompleteTrainingSteps
    \/ Quiet /\ (UsersMeBegins \/ SopCompleteBegins)
    \/ UsersMeSteps
    \/ SopCompleteSteps

Spec == Init /\ [][Next]_vars

\* Slices of Spec, each small enough to explore in full.  The handlers a
\* slice leaves out write none of the collections its own handlers read,
\* but for the User that authenticate inserts, which every handler of the
\* slice inserts alike.

\* Users and employees.
NextDir ==
    \/ Quiet /\ DirectoryOps
    \/ Quiet /\ SelfOps
    \/ Quiet /\ UsersMeBegins
    \/ UsersMeSteps

SpecDir == Init /\ [][NextDir]_vars

\* Users, employees and trainings.
NextTraining ==
    \/ Quiet /\ DirectoryOps
    \/ Quiet /\ TrainingOps

SpecTraining == Init /\ [][NextTraining]_vars

\* The slices on SOPs hire under one email, that of a subject without an
\* account of its own.
SopSliceHires ==
    { b \in EmployeeBodies : b.email = "e1@x" /\ b.name # "" /\ b.dept # "" }

SopSliceDirectory ==
    \/ \E uid \in AdminUids : RegisterAdmin(uid)
    \/ \E uid \in Uids, body \in SopSliceHires : PostEmployees(uid, body)
    \/ \E uid \in Uids, id \in EmpIds : DeleteEmployee(uid, id)

\* Users, employees and the SOP documents.
NextSop ==
    \/ Quiet /\ SopSliceDirectory
    \/ Quiet /\ SopOps(1..MaxSopsWide) /\ Len(sops') <= MaxSopsWide

SpecSop == Init /\ [][NextSop]_vars

\* Users, employees and SOP completion.  PUT /api/sops/:id and .../clear are
\* left out: completion reads an SOP's existence and ownerId, which they
\* leave alone.
NextSopDone ==
    \/ Quiet /\ SopSliceDirectory
    \/ /\ Quiet
       /\ \E uid \in Uids, body \in SopBodies : PostSops(uid, body)
       /\ Len(sops') <= MaxSopsWide
    \/ Quiet /\ \E uid \in Uids, id \in SopIds : DeleteSop(uid, id)
    \/ Quiet /\ \E uid \in Uids : GetEmployeeSops(uid)
    \/ Quiet /\ \E uid \in Uids, id \in SopIds : GetSopProgress(uid, id)
    \/ Quiet /\ SopCompleteBegins
    \/ SopCompleteSteps

SpecSopDone == Init /\ [][NextSopDone]_vars

\* Users and the SOP documents, edited: no employees, and as many SOPs as
\* the collection holds.
NextSopEdit ==
    \/ \E uid \in AdminUids : RegisterAdmin(uid)
    \/ \E uid \in Uids, body \in SopBodies : PostSops(uid, body)
    \/ \E uid \in Uids, id \in SopIds, body \in SopPatches : PutSop(uid, id, body)
    \/ \E uid \in Uids, id \in SopIds : ClearSop(uid, id)
    \/ \E uid \in Uids, id \in SopIds : GetSop(uid, id)

SpecSopEdit == Init /\ [][NextSopEdit]_vars

\* Users, and SOPs and trainings created, read and deleted: no employees.
NextCrud ==
    \/ \E uid \in AdminUids : RegisterAdmin(uid)
    \/ \E uid \in Uids, body \in SopBodies : PostSops(uid, body)
    \/ \E uid \in Uids, id \in SopIds : GetSop(uid, id)
    \/ \E uid \in Uids, id \in SopIds : DeleteSop(uid, id)
    \/ \E uid \in Uids, body \in TrainingBodies : PostTraining(uid, body)
    \/ \E uid \in Uids, id \in TrainingIds : GetTraining(uid, id)
    \/ \E uid \in Uids, id \in TrainingIds : DeleteTraining(uid, id)

SpecCrud == Init /\ [][NextCrud]_vars

\* Users, employees, and SOPs and trainings created and read.
NextCreateGet ==
    \/ \E uid \in AdminUids : RegisterAdmin(uid)
    \/ \E uid \in Uids, body \in SopSliceHires : PostEmployees(uid, body)
    \/ \E uid \in Uids, body \in SopBodies : PostSops(uid, body)
    \/ \E uid \in Uids, id \in SopIds : GetSop(uid, id)
    \/ \E uid \in Uids, body \in TrainingBodies : PostTraining(uid, body)
    \/ \E uid \in Uids, id \in TrainingIds : GetTraining(uid, id)

SpecCreateGet == Init /\ [][NextCreateGet]_vars

\* Users and the three creating requests, with every body.
NextCreate ==
    \/ \E uid \in AdminUids : RegisterAdmin(uid)
    \/ \E uid \in Uids, body \in EmployeeBodies : PostEmployees(uid, body)
    \/ /\ \E uid \in Uids, body \in SopBodies : PostSops(uid, body)
       /\ Len(sops') <= MaxSopsWide
    \/ \E uid \in Uids, body \in TrainingBodies : PostTraining(uid, body)

SpecCreate == Init /\ [][NextCreate]_vars

\* Users, employees, and creates and updates whose bodies carry an
\* ownerId.
NextOwner ==
    \/ \E uid \in AdminUids : RegisterAdmin(uid)
    \/ \E uid \in Uids, body \in EmployeeBodiesOwned : PostEmployees(uid, body)
    \/ /\ \E uid \in Uids, body \in SopBodiesOwned : PostSops(uid, body)
       /\ Len(sops') <= MaxSopsWide
    \/ \E uid \in Uids, id \in SopIds, body \in SopPatchesOwned : PutSop(uid, id, body)
    \/ \E uid \in Uids, id \in SopIds : ClearSop(uid, id)
    \/ \E uid \in Uids, body \in TrainingBodiesOwned : PostTraining(uid, body)

SpecOwner == Init /\ [][NextOwner]_vars

\* GET /api/stats reads the collections and writes none of them: it is
\* applied to stores drawn from bounded sets.  A stored document is one the
\* schemas admit and the create handlers write: both admins registered, at
\* most one Employee, SOPs and trainings of either tenant, and progress
\* records of that Employee for SOPs of its own tenant (the pairs POST
\* /api/sops/:id/complete accepts), one per pair, completed or not.
StoredEmployees ==
    { << >> } \cup { << NewEmployee(o, "e1", "Ann", "e1@x", "ops") >> : o \in AdminUids }
StoredSopDocs ==
    { NewSop(o, [ title |-> "T", dept |-> "ops", content |-> "c1",
                  assignedTo |-> Absent ]) : o \in AdminUids }
StoredTrainingDocs ==
    { [ NewTraining(o, [ title |-> "T", videoUrl |-> "v", assignedEmployees |-> {} ])
          EXCEPT !.status = st ] : o \in AdminUids, st \in { "active", "completed" } }
StoredProgressDocs ==
    { [ NewProgress("e1", i) EXCEPT !.completed = c, !.certificateUrl = IF c THEN 1 ELSE NoCert ] :
        i \in SopIds, c \in BOOLEAN }

InitStats ==
    /\ users = [ u \in Uids |-> IF u \in AdminUids THEN << "admin" >> ELSE << >> ]
    /\ employees \in StoredEmployees
    /\ \E n \in 0..MaxSops : sops \in [ 1..n -> StoredSopDocs ]
    /\ \E n \in 0..MaxTrainings : trainings \in [ 1..n -> StoredTrainingDocs ]
    /\ \E n \in 0..MaxSops : progress \in [ 1..n -> StoredProgressDocs ]
    /\ \A k \in DOMAIN progress :
          /\ employees # << >>
          /\ progress[k].sopId \in DOMAIN sops
          /\ sops[progress[k].sopId].ownerId = employees[1].ownerId
          /\ \A j \in DOMAIN progress : progress[j].sopId = progress[k].sopId => j = k
    /\ logs = [ u \in Uids |-> 0 ]
    /\ fbUsers = SignedUp \cup { employees[i].email : i \in DOMAIN employees }
    /\ temp = 0
    /\ genCalls = [ p \in Uids \X SopIds |-> 0 ]
    /\ settings = [ u \in Uids |-> << >> ]
    /\ calls = [ s \in Slots |-> Idle ]
    /\ resp = Respond("none", "", 0, NoCaller, 0, NoBody)

NextStats == StatsOps

SpecStats == InitStats /\ [][NextStats]_vars

\* Trainings with a log store that may reject an append.  One hire, so
\* that a training can be completed.
LogSliceHires == { b \in EmployeeBodies : b.email = "e1@x" /\ ~MissingEmployeeFields(b) }
NextLog ==
    \/ \E uid \in AdminUids : RegisterAdmin(uid)
    \/ \E uid \in AdminUids, body \in LogSliceHires : PostEmployees(uid, body)
    \/ \E uid \in Uids, body \in TrainingBodies, logOk \in BOOLEAN :
          PostTrainingLog(uid, body, logOk)
    \/ \E uid \in Uids, id \in TrainingIds, logOk \in BOOLEAN :
          CompleteTrainingLog(uid, id, logOk)

SpecLog == Init /\ [][NextLog]_vars

\* The revision of part_001: users, hires, and GET /api/employees/<seg>.
Segs001 == { Lit("me") } \cup { ObjId(i) : i \in EmpIds }
NextMe001 ==
    \/ \E uid \in AdminUids : RegisterAdmin001(uid)
    \/ \E uid \in Uids, body \in EmployeeBodies : PostEmployees001(uid, body)
    \/ \E uid \in Uids, seg \in Segs001 : GetEmployeesSeg001(uid, seg)

SpecMe001 == Init /\ [][NextMe001]_vars

\* Requests interleaved at their awaits.

\* First-time authentications race with each other and with hiring.
NextConcAuth ==
    \/ \E uid \in AdminUids : RegisterAdmin(uid)
    \/ \E uid \in Uids, body \in EmployeeBodies : PostEmployees(uid, body)
    \/ UsersMeBegins
    \/ UsersMeSteps

SpecConcAuth == Init /\ [][NextConcAuth]_vars

\* SOP completions race with each other and with the requests that set
\* them up.
NextConc ==
    \/ \E uid \in AdminUids : RegisterAdmin(uid)
    \/ \E uid \in Uids, body \in SopSliceHires : PostEmployees(uid, body)
    \/ /\ \E uid \in Uids, body \in SopBodies : PostSops(uid, body)
       /\ Len(sops') <= MaxSopsWide
    \/ SopCompleteBegins
    \/ SopCompleteSteps

SpecConc == Init /\ [][NextConc]_vars

\* Training completions race with each other; the requests that set them
\* up are made by admins with complete bodies.
ConcTrainingHires == { b \in EmployeeBodies : ~MissingEmployeeFields(b) }
ConcTrainingBodies == { b \in TrainingBodies : b.title # "" /\ b.videoUrl # "" }
NextConcTraining ==
    \/ \E uid \in AdminUids : RegisterAdmin(uid)
    \/ \E uid \in AdminUids, body \in ConcTrainingHires : PostEmployees(uid, body)
    \/ \E uid \in AdminUids, body \in ConcTrainingBodies : PostTraining(uid, body)
    \/ CompleteTrainingBegins
    \/ CompleteTrainingSteps

SpecConcTraining == Init /\ [][NextConcTraining]_vars

\* First accesses to the settings race with each other.
NextSettings ==
    \/ \E uid \in AdminUids : RegisterAdmin(uid)
    \/ SettingsBegins
    \/ SettingsSteps

SpecSettings == Init /\ [][NextSettings]_vars

(* ========================== properties ================================= *)
Range(seq) == { seq[k] : k \in DOMAIN seq }

\* The caller of the last response acts for a tenant: as its admin, or as
\* one of its employees.
ActsForTenant(r) == r.isEmployee \/ r.role = "admin"

\* The documents of a response body that carry an ownerId.
Owned(r) == { d \in r.body : d.kind \in { "sop", "employee", "training" } }

\* ownerId names a tenant (a subject registered as admin) other than the
\* one the caller of response r acts for.
OtherTenant(ownerId, r) ==
    /\ ownerId # r.tenant
    /\ users[ownerId] # << >>
    /\ users[ownerId][1] = "admin"

\* C1. Ownership isolation: a request that acts for tenant T2 never
\* returns, updates or deletes an SOP, an Employee or a TrainingVideo
\* whose ownerId is another tenant T1, and never opens a completion record
\* on another tenant's SOP.  (Fails: PUT /api/sops/:id finds the SOP by id alone.)
C1_OwnershipIsolation ==
    [][ ActsForTenant(resp') =>
          /\ \A i \in LiveIds(sops) :
                OtherTenant(sops[i].ownerId, resp') => sops'[i] = sops[i]
          /\ \A i \in LiveIds(employees) :
                OtherTenant(employees[i].ownerId, resp') => employees'[i] = employees[i]
          /\ \A i \in LiveIds(trainings) :
                OtherTenant(trainings[i].ownerId, resp') => trainings'[i] = trainings[i]
          /\ \A d \in Owned(resp') : ~OtherTenant(d.ownerId, resp')
          /\ \A p \in DOMAIN progress' \ DOMAIN progress :
                ~OtherTenant(sops[progress'[p].sopId].ownerId, resp') ]_vars

\* C2. SOP mutation is admin-only: a request changes the SOP collection
\* only if its caller has the role admin.  (Fails: POST /api/sops, PUT
\* /api/sops/:id and PUT /api/sops/:id/clear run without requireAdmin.)
C2_SopMutationAdminOnly ==
    [][ sops' # sops => resp'.role = "admin" ]_vars

\* The training or employee a by-id request of the last response named, if
\* it is there and another tenant's, and the caller passed the role check.
ForeignTarget(r) ==
    \/ /\ r.op \in { "completeTraining" }
       /\ r.isEmployee
       /\ r.id \in LiveIds(trainings)
       /\ trainings[r.id].ownerId # r.tenant
    \/ /\ r.op \in { "deleteTraining", "getTraining" }
       /\ r.role = "admin"
       /\ r.id \in LiveIds(trainings)
       /\ trainings[r.id].ownerId # r.tenant
    \/ /\ r.op = "deleteEmployee"
       /\ r.role = "admin"
       /\ r.id \in LiveIds(employees)
       /\ employees[r.id].ownerId # r.tenant

\* C3. A lookup by id of a record that is there but another tenant's is
\* answered as if the record were absent: 404, never 403.  (Fails: POST
\* /api/training/:id/complete answers 403 "Not allowed".)
C3_ForeignIsNotFound ==
    ForeignTarget(resp) => resp.status = 404

\* C4. subjectId uniqueness: no two User documents and no two Employee
\* documents carry the same firebaseUid.  (Fails: the schemas declare no
\* unique index and POST /api/employees never looks for an existing
\* Employee.)
C4_SubjectIdUnique ==
    /\ \A u \in Uids : Len(users[u]) <= 1
    /\ \A i, j \in LiveIds(employees) :
          employees[i].firebaseUid = employees[j].firebaseUid => i = j

\* The routes behind requireAdmin.
AdminOnlyOps ==
    { "postEmployees", "deleteEmployee", "getEmployees", "deleteSop",
      "postTraining", "deleteTraining" }

\* A step in which a request was authenticated and answered at once.
AnsweredAtOnce == calls' = calls /\ resp'.op # "registerAdmin"

\* A step in which a request that waited to insert its User is answered.
AnsweredAfterSave(s) == calls[s].pc = "authSave" /\ calls'[s].pc = "idle"

\* C5. Caller resolution: when an Employee with the subject's uid exists
\* the caller is that Employee, bound to its ownerId, even when a User with
\* the same uid exists, and no User is created; otherwise the caller is
\* the User with that uid, created if absent.  A caller resolved as an
\* Employee never passes requireAdmin.
C5_CallerResolution ==
    [][ /\ AnsweredAtOnce =>
              LET u == resp'.uid
                  e == FindEmployeeByUid(u)
              IN  /\ e # 0 =>
                        /\ resp'.isEmployee
                        /\ resp'.tenant = employees[e].ownerId
                        /\ users'[u] = users[u]
                  /\ e = 0 =>
                        /\ ~resp'.isEmployee
                        /\ resp'.tenant = u
                        /\ users'[u] # << >>
                        /\ users[u] # << >> => users'[u] = users[u]
                        /\ resp'.role = users'[u][1]
                  /\ (resp'.isEmployee /\ resp'.op \in AdminOnlyOps) =>
                        resp'.status = 403
        /\ \A s \in Slots : AnsweredAfterSave(s) =>
              LET u == calls[s].uid
              IN  /\ resp'.uid = u
                  /\ ~resp'.isEmployee
                  /\ resp'.tenant = u
                  /\ Len(users'[u]) = Len(users[u]) + 1
                  /\ resp'.role = users'[u][Len(users'[u])] ]_vars

\* A subject that is an admin User and also another tenant's Employee was
\* resolved as the Employee and turned away from an admin-only route.
C5_Witness ==
    /\ resp.isEmployee
    /\ resp.op \in AdminOnlyOps
    /\ resp.status = 403
    /\ users[resp.uid] # << >>
    /\ users[resp.uid][1] = "admin"
    /\ resp.tenant # resp.uid

\* GET /api/users/me by a subject with neither Employee nor User creates
\* exactly one User with the given role and returns it; a later call by
\* a subject that has a User returns that User and changes nothing.
UsersMeCreatesOnce(role) ==
    /\ \A s \in Slots : AnsweredAfterSave(s) =>
          LET u == calls[s].uid
          IN  (users[u] = << >> /\ FindEmployeeByUid(u) = 0) =>
                /\ users'[u] = << role >>
                /\ resp'.status = 200
                /\ resp'.body = { Doc("user", 1, u, role, FALSE, NoCert) }
    /\ (calls' = calls /\ resp'.op = "usersMe" /\ users[resp'.uid] # << >>) =>
          /\ users' = users
          /\ resp'.status = 200
          /\ resp'.body =
                { Doc("user", 1, resp'.uid, users[resp'.uid][1], FALSE, NoCert) }

C7_TrainingCompletion ==
    \A i \in LiveIds(trainings) :
        LET t == trainings[i]
            done == Range(t.completedBy)
        IN  /\ done = {} => t.status = "active"
            /\ (t.assignedEmployees = {} /\ done # {}) => t.status = "completed"
            /\ t.assignedEmployees # {} =>
                  (t.status = "completed" <=> t.assignedEmployees \subseteq done)

\* A training assigned to two employees, completed by both, the second
\* completion just answered.
C7_Witness ==
    /\ resp.op = "completeTraining"
    /\ resp.status = 200
    /\ resp.id \in LiveIds(trainings)
    /\ Cardinality(trainings[resp.id].assignedEmployees) = 2
    /\ Range(trainings[resp.id].completedBy) = trainings[resp.id].assignedEmployees
    /\ trainings[resp.id].status = "completed"

\* The two SOP completion routes.
CompletionOps == { "sopComplete", "employeeSopComplete" }

\* The progress documents of an (employee, SOP) pair.
ProgressOf(uid, id) ==
    { p \in DOMAIN progress :
        progress[p].employeeId = uid /\ progress[p].sopId = id }

\* C8. SOP completion called twice, one call after the other, for one
\* (employee, SOP) pair: generateCertificate is invoked once in total, one
\* progress document is left, and each call answers with the certificateUrl
\* saved on it.  (Fails: generateCertificate throws after every successful
\* upload, so nothing is ever saved and the second call invokes it again.)
C8_CompleteTwice ==
    /\ \A key \in Uids \X SopIds :
          /\ genCalls[key] <= 1
          /\ Cardinality(ProgressOf(key[1], key[2])) <= 1
    /\ (resp.op \in CompletionOps /\ resp.status = 200) =>
          \A d \in resp.body :
              /\ d.cert # NoCert
              /\ \A p \in ProgressOf(resp.uid, resp.id) :
                    progress[p].certificateUrl = d.cert

\* C9. Under any interleaving of concurrent completion requests for one
\* (employee, SOP) pair, at most one progress document exists for the pair
\* and generateCertificate is invoked at most once for it.  (Fails: two
\* requests both find no progress document and both create one.)
C9_ConcurrentOnce ==
    \A uid \in Uids, id \in SopIds :
        /\ Cardinality(ProgressOf(uid, id)) <= 1
        /\ genCalls[<< uid, id >>] <= 1

\* The last request came from an employee of an admin's tenant and names
\* an SOP of that tenant assigned to the employee.
AssignedInTenant(r) ==
    LET e == FindEmployeeByUid(r.uid)
    IN  /\ e # 0
        /\ users[employees[e].ownerId] # << >>
        /\ users[employees[e].ownerId][1] = "admin"
        /\ r.id \in LiveIds(sops)
        /\ sops[r.id].ownerId = employees[e].ownerId
        /\ e \in sops[r.id].assignedTo

\* C10. End to end: an employee's GET /api/employee/sops returns exactly
\* the SOPs of the tenant assigned to the employee; the employee's
\* completion of such an SOP succeeds; after a completion was attempted,
\* GET /api/sops/:id/progress shows completed with a certificateUrl.
\* (Fails: the completion is answered 500, generateCertificate throws.)
C10_EndToEnd ==
    /\ (resp.op = "getEmployeeSops" /\ resp.isEmployee) =>
          /\ resp.status = 200
          /\ { d.id : d \in resp.body } =
                { i \in LiveIds(sops) :
                    /\ sops[i].ownerId = resp.tenant
                    /\ FindEmployeeByUid(resp.uid) \in sops[i].assignedTo }
    /\ (resp.op \in CompletionOps /\ AssignedInTenant(resp)) =>
          resp.status = 200
    /\ ( /\ resp.op = "getSopProgress"
         /\ AssignedInTenant(resp)
         /\ genCalls[<< resp.uid, resp.id >>] > 0 ) =>
          \A d \in resp.body : d.completed /\ d.cert # NoCert

\* C11. generateCertificate returns the remote url whenever the upload
\* succeeds: a completion whose certificate generation leaves no temp file
\* behind (the upload went through and removed it) saves a certificateUrl
\* on its progress document.  (Fails: the second unlinkSync of the removed
\* file throws.)
C11_CertificateReturned ==
    [][ \A s \in Slots :
          ( /\ calls[s].pc = "generate"
            /\ calls'[s].pc = "idle"
            /\ temp' = temp ) =>
              progress'[calls[s].prog].certificateUrl # NoCert ]_vars

\* C12. PUT /api/sops/:id is a partial merge: of the SOP it names, every
\* field the body carries takes the body's value and every field the body
\* lacks keeps its own, the stamp `updated` moves on, ownerId stays; a body
\* with content alone thus changes content and the stamp only.  No other
\* SOP changes.
C12_PartialMerge ==
    [][ (resp'.op = "putSop" /\ resp'.status = 200) =>
          LET i == resp'.id
              b == resp'.sent
          IN  /\ DOMAIN sops' = DOMAIN sops
              /\ \A j \in DOMAIN sops : j # i => sops'[j] = sops[j]
              /\ sops'[i].live
              /\ sops'[i].ownerId = sops[i].ownerId
              /\ sops'[i].updated > sops[i].updated
              /\ sops'[i].title = IF b.title = "" THEN sops[i].title ELSE b.title
              /\ sops'[i].dept = IF b.dept = "" THEN sops[i].dept ELSE b.dept
              /\ sops'[i].content =
                    IF b.content = "" THEN sops[i].content ELSE b.content
              /\ sops'[i].assignedTo =
                    IF b.assignedTo.present THEN b.assignedTo.val
                    ELSE sops[i].assignedTo ]_vars

\* A PUT whose body carried content alone was answered, on an SOP that
\* keeps its title, dept and assignees, with another SOP in the collection.
C12_Witness ==
    /\ resp.op = "putSop"
    /\ resp.status = 200
    /\ resp.sent = [ title |-> "", dept |-> "", content |-> "c2", assignedTo |-> Absent ]
    /\ sops[resp.id].content = "c2"
    /\ sops[resp.id].title = "T"
    /\ sops[resp.id].dept = "ops"
    /\ sops[resp.id].assignedTo # {}
    /\ Cardinality(LiveIds(sops)) = 2

\* A DELETE of document id of collection coll, answered by response r: a
\* success removes that document, the caller's own, and no other; any other
\* answer leaves the store as it was; an admin naming a document that is
\* not there (deleted before, or never created) is answered 404.
DeleteEffect(coll, collAfter, r) ==
    /\ r.status = 200 =>
          /\ r.id \in LiveIds(coll)
          /\ coll[r.id].ownerId = r.uid
          /\ LiveIds(collAfter) = LiveIds(coll) \ { r.id }
          /\ \A j \in LiveIds(collAfter) : collAfter[j] = coll[j]
    /\ r.status # 200 =>
          UNCHANGED << sops, trainings, employees, progress, logs >>
    /\ (r.role = "admin" /\ r.id \notin LiveIds(coll)) => r.status = 404

\* C13. For SOPs and trainings: after a DELETE by its owner succeeded, a
\* GET by that id is answered 404 and so is a second DELETE, which changes
\* nothing; a DELETE of an absent or not-owned id removes no record; a
\* deleted id never comes back.
C13_DeleteThenNotFound ==
    [][ /\ resp'.op = "deleteSop" => DeleteEffect(sops, sops', resp')
        /\ resp'.op = "deleteTraining" => DeleteEffect(trainings, trainings', resp')
        /\ (resp'.op = "getSop" /\ resp'.id \notin LiveIds(sops)) =>
              resp'.status = 404
        /\ (resp'.op = "getTraining" /\ resp'.id \notin LiveIds(trainings)) =>
              resp'.status = 404
        /\ \A i \in DOMAIN sops : ~sops[i].live => ~sops'[i].live
        /\ \A i \in DOMAIN trainings : ~trainings[i].live => ~trainings'[i].live ]_vars

\* An admin's second DELETE of an SOP it deleted was answered 404, with
\* another SOP still in the collection.
C13_Witness ==
    /\ resp.op = "deleteSop"
    /\ resp.status = 404
    /\ resp.role = "admin"
    /\ resp.id \in DOMAIN sops
    /\ ~sops[resp.id].live
    /\ LiveIds(sops) # {}

\* C14. For SOPs and trainings: a successful create stores the fields the
\* client sent under the caller's identity, and a GET of the returned id by
\* the same caller returns the record with those fields as they were
\* created.  (Fails: GET /api/sops/:id populates assignedTo, and a
\* reference that names no Employee is dropped from what it returns.)
C14_CreateThenGet ==
    [][ /\ (resp'.op = "postSops" /\ resp'.status = 200) =>
              LET i == resp'.id
              IN  /\ i \in LiveIds(sops') \ DOMAIN sops
                  /\ sops'[i].ownerId = resp'.uid
                  /\ sops'[i].title = resp'.sent.title
                  /\ sops'[i].dept = resp'.sent.dept
                  /\ sops'[i].content = resp'.sent.content
                  /\ sops'[i].assignedTo = resp'.sent.assignedTo.val
        /\ (resp'.op = "postTraining" /\ resp'.status = 200) =>
              LET i == resp'.id
              IN  /\ i \in LiveIds(trainings') \ DOMAIN trainings
                  /\ trainings'[i].ownerId = resp'.uid
                  /\ trainings'[i].title = resp'.sent.title
                  /\ trainings'[i].videoUrl = resp'.sent.videoUrl
                  /\ trainings'[i].assignedEmployees = resp'.sent.assignedEmployees
        /\ ( /\ resp'.op = "getSop"
             /\ resp'.id \in LiveIds(sops)
             /\ sops[resp'.id].ownerId = resp'.uid ) =>
              /\ resp'.status = 200
              /\ \A d \in resp'.body :
                    /\ d.id = resp'.id
                    /\ d.title = sops[d.id].title
                    /\ d.dept = sops[d.id].dept
                    /\ d.content = sops[d.id].content
                    /\ d.assignedTo = sops[d.id].assignedTo
        /\ ( /\ resp'.op = "getTraining"
             /\ resp'.id \in LiveIds(trainings)
             /\ trainings[resp'.id].ownerId = resp'.uid ) =>
              /\ resp'.status = 200
              /\ \A d \in resp'.body :
                    /\ d.id = resp'.id
                    /\ d.title = trainings[d.id].title
                    /\ d.videoUrl = trainings[d.id].videoUrl
                    /\ d.assignedEmployees = trainings[d.id].assignedEmployees ]_vars

\* C15. DELETE /api/employees/:id by an admin, naming an Employee another
\* admin owns, is answered 404, leaves the Employee collection and every
\* tenant's log as they were, and the owner's next GET /api/employees lists
\* the Employee: the list is exactly the caller's live Employees.
C15_ForeignEmployeeKept ==
    [][ /\ ( /\ resp'.op = "deleteEmployee"
             /\ resp'.role = "admin"
             /\ resp'.id \in LiveIds(employees)
             /\ employees[resp'.id].ownerId # resp'.uid ) =>
              /\ resp'.status = 404
              /\ employees' = employees
              /\ logs' = logs
        /\ (resp'.op = "getEmployees" /\ resp'.role = "admin") =>
              /\ resp'.status = 200
              /\ { d.id : d \in resp'.body } =
                    { i \in LiveIds(employees) : employees[i].ownerId = resp'.uid } ]_vars

\* An admin's DELETE of another admin's Employee was answered 404 and the
\* Employee is still there.
C15_Witness ==
    /\ resp.op = "deleteEmployee"
    /\ resp.status = 404
    /\ resp.role = "admin"
    /\ resp.id \in LiveIds(employees)
    /\ employees[resp.id].ownerId # resp.uid
    /\ users[employees[resp.id].ownerId] # << >>
    /\ users[employees[resp.id].ownerId][1] = "admin"

\* The request answered by r was refused as a client error and persisted
\* no document, no identity-provider account and no log entry.
RefusedClean(r) ==
    /\ r.status \in 400..499
    /\ UNCHANGED << sops, employees, trainings, progress, fbUsers, logs >>

\* C16. A create of an SOP, an Employee or a training whose body lacks a
\* required field (SOP: title, dept, content; Employee: name, email, dept;
\* training: title, videoUrl) is answered 4xx and persists nothing: no
\* record, no identity-provider account, no log entry.
C16_InvalidCreateRefused ==
    [][ /\ ( /\ resp'.op = "postSops"
             /\ "" \in { resp'.sent.title, resp'.sent.dept, resp'.sent.content } ) =>
              RefusedClean(resp')
        /\ ( /\ resp'.op = "postEmployees"
             /\ "" \in { resp'.sent.name, resp'.sent.email, resp'.sent.dept } ) =>
              RefusedClean(resp')
        /\ ( /\ resp'.op = "postTraining"
             /\ "" \in { resp'.sent.title, resp'.sent.videoUrl } ) =>
              RefusedClean(resp') ]_vars

\* An admin's POST /api/employees without a dept, for an email that has no
\* account, was answered 400 and the email still has no account.
C16_Witness ==
    /\ resp.op = "postEmployees"
    /\ resp.role = "admin"
    /\ resp.status = 400
    /\ resp.sent.dept = ""
    /\ resp.sent.email \notin fbUsers

\* C17. POST /api/employees for a subject that already is an Employee is
\* answered 409 Conflict and leaves the Employee collection as it was.
\* (Fails: the handler never looks for an existing Employee and inserts a
\* second one.)
C17_DuplicateEmployeeConflict ==
    [][ ( /\ resp'.op = "postEmployees"
          /\ resp'.role = "admin"
          /\ "" \notin { resp'.sent.name, resp'.sent.email, resp'.sent.dept }
          /\ FindEmployeeByUid(UidOfEmail(resp'.sent.email)) # 0 ) =>
            /\ resp'.status = 409
            /\ employees' = employees ]_vars

\* Every document a step inserts into coll carries the caller's uid as its
\* ownerId, and every document that stays keeps its ownerId.
OwnerStamped(coll, collAfter, r) ==
    /\ \A i \in DOMAIN collAfter \ DOMAIN coll : collAfter[i].ownerId = r.uid
    /\ \A i \in LiveIds(coll) \cap LiveIds(collAfter) :
          collAfter[i].ownerId = coll[i].ownerId

CompletedOfTenant(T) ==
    Cardinality({ k \in DOMAIN progress :
                    /\ progress[k].completed
                    /\ FindEmployeeByUid(progress[k].employeeId) # 0
                    /\ employees[FindEmployeeByUid(progress[k].employeeId)].ownerId = T })

CountOwnedBy(coll, T) == Cardinality({ i \in LiveIds(coll) : coll[i].ownerId = T })

C20_LogFailureIsNotFatal ==
    [][ ( /\ resp'.op \in { "postTraining", "completeTraining" }
          /\ trainings' # trainings ) => resp'.status = 200 ]_vars

\* C21. Every reference in an SOP's assignedTo is an existing Employee
\* whose ownerId is the SOP's ownerId.
\* (Fails: POST /api/sops and PUT /api/sops/:id store the assignedTo of the
\* body as it comes, and DELETE /api/employees/:id leaves the SOPs alone.)
C21_AssignedToInTenant ==
    \A i \in LiveIds(sops) :
        \A e \in sops[i].assignedTo :
            /\ e \in LiveIds(employees)
            /\ employees[e].ownerId = sops[i].ownerId

\* C22. GET /api/employees/me is self-service: a caller who is not an
\* admin and has an Employee record receives that record, and is not turned
\* away by the admin gate of another route.
\* (Fails in the revision of part_001: GET /api/employees/:id is registered
\* before GET /api/employees/me, its parameter matches "me", and its
\* requireAdmin answers 403.)
C22_EmployeesMeSelfService ==
    [][ ( /\ resp'.op \in { "getEmployee", "getEmployeesMe" }
          /\ resp'.sent = Lit("me")
          /\ resp'.role # "admin"
          /\ FindEmployeeByUid(resp'.uid) # 0 ) =>
            /\ resp'.op = "getEmployeesMe"
            /\ resp'.status = 200
            /\ resp'.id = FindEmployeeByUid(resp'.uid)
            /\ resp'.body # {} ]_vars

\* The subject's User record carries the role admin.
RegisteredAdmin(us, uid) == us[uid] # << >> /\ us[uid][1] = "admin"

\* C23. After a subject calls POST /api/users/register-admin its User has
\* the role admin and no other User's role has changed, and every later
\* admin-only request of the subject passes the role check.
\* (Fails: authenticate resolves an Employee with the subject's uid before
\* the User, so once any admin hires the subject its admin-only requests
\* are answered 403; and the latest revision registers no such route.)
C23_RegisteredAdminStays ==
    [][ /\ (resp'.op = "registerAdmin" /\ calls' = calls) =>
              /\ RegisteredAdmin(users', resp'.uid)
              /\ \A v \in Uids \ { resp'.uid } : users'[v] = users[v]
        /\ ( /\ resp'.op \in AdminOnlyOps
             /\ calls' = calls
             /\ RegisteredAdmin(users, resp'.uid) ) => resp'.status # 403 ]_vars

\* No completion of training i is in flight.
TrainingQuiet(i) ==
    \A s \in Slots : ~(calls[s].pc = "trainingSave" /\ calls[s].id = i)

\* C24. No successful training completion is lost under concurrency: once
\* the completion requests on a training have returned, every employee
\* that was answered with success is in completedBy, and if
\* assignedEmployees is non-empty and within completedBy the status is
\* completed.
\* (Fails: each request decides the status from the completedBy it read;
\* two assignees that complete at the same time each see the other missing,
\* and the training stays active with both in completedBy.)
C24_NoLostCompletion ==
    \A i \in LiveIds(trainings) :
        TrainingQuiet(i) =>
            /\ \A e \in LiveIds(employees) :
                  i \in employees[e].completedTrainings =>
                      Includes(trainings[i].completedBy, employees[e].firebaseUid)
            /\ ( /\ trainings[i].assignedEmployees # {}
                 /\ trainings[i].assignedEmployees \subseteq Range(trainings[i].completedBy) )
                    => trainings[i].status = "completed"

\* C25. The status of a training moves one way: once a training has the
\* status completed it keeps it for as long as the record exists,
\* interleaved completion requests included.
C25_StatusOneWay ==
    [][ \A i \in LiveIds(trainings) \cap LiveIds(trainings') :
           trainings[i].status = "completed" => trainings'[i].status = "completed" ]_vars

\* A request that read the training while it was active, and left it
\* active in memory, has saved after another request completed the
\* training: its answer shows active, the stored training is completed.
C25_Witness ==
    /\ resp.op = "completeTraining"
    /\ resp.status = 200
    /\ resp.id \in LiveIds(trainings)
    /\ trainings[resp.id].status = "completed"
    /\ \E d \in resp.body : d.role = "active"

NoDuplicates(seq) == \A j, k \in DOMAIN seq : seq[j] = seq[k] => j = k

\* C26. completedBy has set semantics: the completion of a training by an
\* employee that completedBy already holds leaves completedBy, the status
\* and the employee's completedTrainings as they were, and completedBy
\* never holds the same subject twice.
\* (Fails: two requests of one employee that both read the training before
\* either saves each push the uid, and completedBy holds it twice.)
C26_CompletedBySet ==
    [][ /\ \A i \in LiveIds(trainings') : NoDuplicates(trainings'[i].completedBy)
        /\ \A s \in Slots :
              ( /\ calls[s].pc = "trainingSave"
                /\ calls'[s].pc = "idle"
                /\ resp'.status = 200
                /\ Includes(trainings[calls[s].id].completedBy, calls[s].uid) ) =>
                    /\ trainings' = trainings
                    /\ \A e \in LiveIds(employees) :
                          employees'[e].completedTrainings =
                              employees[e].completedTrainings ]_vars

\* C27. There is at most one SystemSettings record per ownerId, its fields
\* are the schema defaults until the first update, and concurrent first
\* accesses by one admin all end with a success that carries that record.
\* (Fails: both requests find no record and both create one; ownerId is
\* unique, the second create is rejected and that request is answered
\* 500.)
C27_SettingsOncePerTenant ==
    [][ /\ \A u \in Uids :
              /\ Len(settings'[u]) <= 1
              /\ \A k \in DOMAIN settings'[u] :
                    settings'[u][k].updated = 0 => settings'[u][k] = DefaultSettings
        /\ \A s \in Slots :
              ( calls[s].pc = "settingsCreate" /\ calls'[s].pc = "idle" ) =>
                  /\ resp'.status = 200
                  /\ resp'.settings = settings'[calls[s].uid][1] ]_vars

\* C28. No request of one tenant changes how the admin of another tenant
\* is resolved: a subject that is resolved as a User with role admin is
\* still resolved so after any request made by another subject.
\* (Fails: POST /api/employees with the email of another tenant's admin
\* stores an Employee with that admin's uid, and authenticate resolves the
\* Employee first.)
C28_AdminResolutionIsolated ==
    [][ \A v \in Uids :
          ( /\ calls' = calls
            /\ resp'.uid # v
            /\ RegisteredAdmin(users, v)
            /\ FindEmployeeByUid(v) = 0 ) =>
              /\ RegisteredAdmin(users', v)
              /\ \A i \in LiveIds(employees') : employees'[i].firebaseUid # v ]_vars

\* C29. Every stored progress record with completed = true has a
\* certificateUrl and a completedAt, and every record with completed =
\* false has no certificateUrl; also after generateCertificate failed
\* midway through a completion request.
C29_ProgressConsistent ==
    \A k \in DOMAIN progress :
        /\ progress[k].completed =>
              progress[k].certificateUrl # NoCert /\ progress[k].completedAt # 0
        /\ ~progress[k].completed => progress[k].certificateUrl = NoCert

\* A completion request created its progress record, generateCertificate
\* threw, and the request was answered 500.
C29_Witness ==
    /\ resp.op \in CompletionOps
    /\ resp.status = 500
    /\ genCalls[<< resp.uid, resp.id >>] > 0
    /\ ProgressOf(resp.uid, resp.id) # {}

\* C30. An employee that a training's non-empty assignedEmployees does not
\* list cannot complete it: the request is answered 403 and leaves the
\* training and the employee as they were.  So every subject a step adds to
\* completedBy is, at that step, an Employee of the training's owner, and
\* with assignedEmployees non-empty completedBy stays within it.
C30_OnlyAssigneesComplete ==
    [][ /\ ( /\ resp'.op = "completeTraining"
             /\ resp'.id \in LiveIds(trainings)
             /\ FindEmployeeByUid(resp'.uid) # 0
             /\ trainings[resp'.id].assignedEmployees # {}
             /\ resp'.uid \notin trainings[resp'.id].assignedEmployees ) =>
                /\ resp'.status = 403
                /\ trainings' = trainings
                /\ employees' = employees
        /\ \A i \in LiveIds(trainings) \cap LiveIds(trainings') :
              \A u \in Range(trainings'[i].completedBy) \ Range(trainings[i].completedBy) :
                  /\ FindEmployeeByUid(u) # 0
                  /\ employees[FindEmployeeByUid(u)].ownerId = trainings[i].ownerId
        /\ \A i \in LiveIds(trainings') :
              trainings'[i].assignedEmployees # {} =>
                  Range(trainings'[i].completedBy) \subseteq trainings'[i].assignedEmployees
      ]_vars

\* An employee of the training's owner that the training does not list
\* asked to complete it and was answered 403, after a listed one completed
\* it.
C30_Witness ==
    /\ resp.op = "completeTraining"
    /\ resp.status = 403
    /\ resp.id \in LiveIds(trainings)
    /\ FindEmployeeByUid(resp.uid) # 0
    /\ employees[FindEmployeeByUid(resp.uid)].ownerId = trainings[resp.id].ownerId
    /\ trainings[resp.id].assignedEmployees # {}
    /\ resp.uid \notin trainings[resp.id].assignedEmployees
    /\ trainings[resp.id].completedBy # << >>
====
